---- MODULE Spec2Model ----
(***************************************************************************)
(* molibackup: the run of the process (main), the per-job sequence         *)
(* (runJob) and the ebs-snapshot module (LoadConfiguration,                *)
(* InitialiseModule, findRelevantVolumes, CreateBackup, ListBackups,       *)
(* DeleteOldBackups), together with the configuration store (koanf) and    *)
(* the AWS collaborator, which is the nondeterministic environment.        *)
(*                                                                         *)
(* Strings that the program only compares for equality are TLA+ strings.   *)
(* Strings that the program sorts, concatenates, splits or matches against *)
(* a regular expression are sequences of character codes (Chars).          *)
(***************************************************************************)
EXTENDS Integers, Sequences, FiniteSets, TLC

----------------------------------------------------------------------------
(* Bounds of the model *)

\* number of snapshots the provider holds before the run starts (at most)
MaxSnaps == 1
\* number of seconds the wall clock advances during the run (at most)
MaxClockSteps == 1

----------------------------------------------------------------------------
(* Strings as character codes *)

Chars ==
  ("" :> <<>>) @@
  ("local" :> <<108, 111, 99, 97, 108>>) @@
  ("i-0123456789abcdef0" :> <<105, 45, 48, 49, 50, 51, 52, 53, 54, 55, 56, 57, 97, 98, 99, 100, 101, 102, 48>>) @@
  ("i-zzzzzzzzzzzzzzzzz" :> <<105, 45, 122, 122, 122, 122, 122, 122, 122, 122, 122, 122, 122, 122, 122, 122, 122, 122, 122>>) @@
  ("i-123" :> <<105, 45, 49, 50, 51>>) @@
  ("Backup=yes" :> <<66, 97, 99, 107, 117, 112, 61, 121, 101, 115>>) @@
  ("Backup" :> <<66, 97, 99, 107, 117, 112>>) @@
  ("a=b=c" :> <<97, 61, 98, 61, 99>>) @@
  ("Backup=no" :> <<66, 97, 99, 107, 117, 112, 61, 110, 111>>) @@
  ("Backup=" :> <<66, 97, 99, 107, 117, 112, 61>>) @@
  ("=yes" :> <<61, 121, 101, 115>>) @@
  ("=" :> <<61>>) @@
  ("Backup==yes" :> <<66, 97, 99, 107, 117, 112, 61, 61, 121, 101, 115>>) @@
  ("Back up=yes" :> <<66, 97, 99, 107, 32, 117, 112, 61, 121, 101, 115>>) @@
  ("alpha" :> <<97, 108, 112, 104, 97>>) @@
  ("beta" :> <<98, 101, 116, 97>>) @@
  ("vol-1" :> <<118, 111, 108, 45, 49>>) @@
  ("vol-2" :> <<118, 111, 108, 45, 50>>) @@
  ("data" :> <<100, 97, 116, 97>>) @@
  ("yes" :> <<121, 101, 115>>)

Range(f) == {f[x] : x \in DOMAIN f}

\* byte-wise comparison of two strings, as sort.Strings orders them
RECURSIVE LexLess(_, _)
LexLess(a, b) ==
  IF a = <<>> THEN b # <<>>
  ELSE IF b = <<>> THEN FALSE
  ELSE IF Head(a) # Head(b) THEN Head(a) < Head(b)
  ELSE LexLess(Tail(a), Tail(b))

\* insert the string s into the sorted list
RECURSIVE InsertSorted(_, _)
InsertSorted(sorted, s) ==
  IF sorted = <<>> THEN <<s>>
  ELSE IF LexLess(s, Head(sorted)) THEN <<s>> \o sorted
  ELSE <<Head(sorted)>> \o InsertSorted(Tail(sorted), s)

\* a list left in the order it was given
SortStringsNone(list) == list

\* sort.Strings: the list in increasing byte-wise order, duplicates kept
RECURSIVE SortStrings(_)
SortStrings(list) ==
  IF list = <<>> THEN <<>>
  ELSE InsertSorted(SortStrings(Tail(list)), Head(list))

\* the string whose characters are cs
Unchars(cs) == CHOOSE s \in DOMAIN Chars : Chars[s] = cs

\* the sequences that enumerate the set S, each element once
RECURSIVE Perms(_)
Perms(S) ==
  IF S = {} THEN {<<>>}
  ELSE UNION {{<<x>> \o p : p \in Perms(S \ {x})} : x \in S}

\* Go's integer division truncates toward zero
GoDiv(a, b) == IF a >= 0 THEN a \div b ELSE -((-a) \div b)

\* the decimal digits of n, zero-padded to width w (fmt "%0wd")
RECURSIVE Pad(_, _)
Pad(n, w) == IF w = 0 THEN <<>> ELSE Pad(n \div 10, w - 1) \o <<48 + (n % 10)>>

\* time.Time.Format(time.RFC3339) of the epoch second t, in UTC:
\* "2006-01-02T15:04:05Z", second precision
FormatRFC3339(t) ==
  LET z   == (t \div 86400) + 719468
      sod == t % 86400
      era == z \div 146097
      doe == z - era * 146097
      yoe == (doe - doe \div 1460 + doe \div 36524 - doe \div 146096) \div 365
      doy == doe - (365 * yoe + yoe \div 4 - yoe \div 100)
      mp  == (5 * doy + 2) \div 153
      d   == doy - (153 * mp + 2) \div 5 + 1
      m   == IF mp < 10 THEN mp + 3 ELSE mp - 9
      y   == yoe + era * 400 + (IF m <= 2 THEN 1 ELSE 0)
  IN Pad(y, 4) \o <<45>> \o Pad(m, 2) \o <<45>> \o Pad(d, 2) \o <<84>> \o
     Pad(sod \div 3600, 2) \o <<58>> \o Pad((sod % 3600) \div 60, 2) \o <<58>> \o
     Pad(sod % 60, 2) \o <<90>>

----------------------------------------------------------------------------
(* The configuration store (koanf) and the validation rules *)

\* A configuration value: its Go type as fmt "%T" prints it, and its
\* rendering as fmt "%v" prints it.
StrVal(s)  == [t |-> "string", s |-> s]
BoolVal(b) == [t |-> "bool", s |-> IF b THEN "true" ELSE "false"]
IntVal(s)  == [t |-> "int", s |-> s]

\* the integers the model's numerals denote (strconv.ParseInt)
IntOf == ("0" :> 0) @@ ("1" :> 1) @@ ("5" :> 5) @@ ("30" :> 30)

\* A section of the configuration is a function from its keys to values.
HasKey(m, k) == k \in DOMAIN m
SetKey(m, k, v) == [x \in DOMAIN m \cup {k} |-> IF x = k THEN v ELSE m[x]]
DelKey(m, k) == [x \in DOMAIN m \ {k} |-> m[x]]

\* Decoding of a value into a struct field of the given Go type, as
\* koanf's Unmarshal does it (mapstructure with WeaklyTypedInput).
DecodeString(v) ==
  IF v.t = "bool" THEN [ok |-> TRUE, val |-> IF v.s = "true" THEN "1" ELSE "0"]
  ELSE [ok |-> TRUE, val |-> v.s]

DecodeBool(v) ==
  IF v.t = "bool" THEN [ok |-> TRUE, val |-> v.s = "true"]
  ELSE IF v.t = "int" THEN [ok |-> TRUE, val |-> IntOf[v.s] # 0]
  ELSE IF v.s \in {"1", "t", "T", "TRUE", "true", "True"} THEN [ok |-> TRUE, val |-> TRUE]
  ELSE IF v.s \in {"0", "f", "F", "FALSE", "false", "False", ""} THEN [ok |-> TRUE, val |-> FALSE]
  ELSE [ok |-> FALSE, val |-> FALSE]

DecodeInt(v) ==
  IF v.t = "int" THEN [ok |-> TRUE, val |-> IntOf[v.s]]
  ELSE IF v.t = "bool" THEN [ok |-> TRUE, val |-> IF v.s = "true" THEN 1 ELSE 0]
  ELSE IF v.s \in DOMAIN IntOf THEN [ok |-> TRUE, val |-> IntOf[v.s]]
  ELSE IF v.s = "" THEN [ok |-> TRUE, val |-> 0]
  ELSE [ok |-> FALSE, val |-> 0]

FieldString(m, k) == IF HasKey(m, k) THEN DecodeString(m[k]) ELSE [ok |-> TRUE, val |-> ""]
FieldBool(m, k)   == IF HasKey(m, k) THEN DecodeBool(m[k]) ELSE [ok |-> TRUE, val |-> FALSE]
FieldInt(m, k)    == IF HasKey(m, k) THEN DecodeInt(m[k]) ELSE [ok |-> TRUE, val |-> 0]

\* kconfig.Unmarshal(cfgpath, &jobconf) with jobconf a JobMetaConfig
JobMetaConfig(m) ==
  [ok |-> /\ FieldString(m, "module").ok /\ FieldBool(m, "enabled").ok
          /\ FieldBool(m, "dryrun").ok /\ FieldInt(m, "retention").ok,
   conf |-> [Module    |-> FieldString(m, "module").val,
             Enabled   |-> FieldBool(m, "enabled").val,
             DryRun    |-> FieldBool(m, "dryrun").val,
             Retention |-> FieldInt(m, "retention").val]]

\* kconfig.Unmarshal(jobpath, &b.config) with b.config a JobConfigEbsSnapshot
JobConfigEbsSnapshot(m) ==
  [ok |-> /\ FieldString(m, "module").ok /\ FieldBool(m, "enabled").ok
          /\ FieldBool(m, "dryrun").ok /\ FieldInt(m, "retention").ok,
   conf |-> [Module          |-> FieldString(m, "module").val,
             Enabled         |-> FieldBool(m, "enabled").val,
             DryRun          |-> FieldBool(m, "dryrun").val,
             Retention       |-> FieldInt(m, "retention").val,
             AwsRegion       |-> FieldString(m, "aws_region").val,
             AccessKeyId     |-> FieldString(m, "accesskey_id").val,
             AccessKeySecret |-> FieldString(m, "accesskey_secret").val,
             InstanceId      |-> FieldString(m, "instance_id").val,
             InstanceTag     |-> FieldString(m, "instance_tag").val,
             VolumeTag       |-> FieldString(m, "volume_tag").val]]

\* a rule that never has a default
RuleNoDefault(name, type, mandatory, default, allowed) ==
  [entryname |-> name, entrytype |-> type, mandatory |-> mandatory,
   defaultval |-> "", allowedval |-> allowed]

\* a rule that is never mandatory
RuleNeverMandatory(name, type, mandatory, default, allowed) ==
  [entryname |-> name, entrytype |-> type, mandatory |-> FALSE,
   defaultval |-> default, allowedval |-> allowed]

\* A rule; allowedval <<>> is the nil slice (no restriction).
Rule(name, type, mandatory, default, allowed) ==
  [entryname |-> name, entrytype |-> type, mandatory |-> mandatory,
   defaultval |-> default, allowedval |-> allowed]

validateConfigGlobal ==
  << Rule("loglevel", "string", FALSE, "info", <<"error", "warn", "info", "debug">>) >>

validateConfigJobdef ==
  << Rule("module", "string", TRUE, "", <<"ebs-snapshot">>),
     Rule("enabled", "bool", FALSE, "true", <<"true", "false">>),
     Rule("dryrun", "bool", FALSE, "false", <<"true", "false">>),
     Rule("retention", "int", FALSE, "30", <<>>),
     Rule("aws_region", "string", TRUE, "", <<>>),
     Rule("accesskey_id", "string", FALSE, "", <<>>),
     Rule("accesskey_secret", "string", FALSE, "", <<>>),
     Rule("instance_id", "string", FALSE, "", <<>>),
     Rule("instance_tag", "string", FALSE, "", <<>>),
     Rule("volume_tag", "string", FALSE, "", <<>>) >>

NoError == [kind |-> "none", key |-> ""]
Error(kind, key) == [kind |-> kind, key |-> key]

\* a loop over the rules that does not look at the type of a value
RECURSIVE ValidateEntriesUntyped(_, _, _, _)
ValidateEntriesUntyped(configmap, validation, i, sets) ==
  IF i > Len(validation) THEN [err |-> [kind |-> "none", key |-> ""], sets |-> sets]
  ELSE LET entry == validation[i]
           name  == entry.entryname
       IN IF HasKey(configmap, name)
          THEN IF entry.allowedval # <<>> /\ configmap[name].s \notin Range(entry.allowedval)
               THEN [err |-> [kind |-> "value", key |-> name], sets |-> sets]
               ELSE ValidateEntriesUntyped(configmap, validation, i + 1, sets)
          ELSE IF entry.mandatory
               THEN [err |-> [kind |-> "missing", key |-> name], sets |-> sets]
               ELSE IF entry.defaultval # ""
               THEN ValidateEntriesUntyped(configmap, validation, i + 1,
                                           sets \cup {<<name, entry.defaultval>>})
               ELSE ValidateEntriesUntyped(configmap, validation, i + 1, sets)

\* The loop over the rules: the first violation ends it; sets are the
\* defaults written to the store (kconfig.Set) up to that point.
RECURSIVE ValidateEntries(_, _, _, _)
ValidateEntries(configmap, validation, i, sets) ==
  IF i > Len(validation) THEN [err |-> NoError, sets |-> sets]
  ELSE LET entry == validation[i]
           name  == entry.entryname
       IN IF HasKey(configmap, name)
          THEN IF entry.entrytype # "" /\ configmap[name].t # entry.entrytype
               THEN [err |-> Error("type", name), sets |-> sets]
               ELSE IF entry.allowedval # <<>> /\ configmap[name].s \notin Range(entry.allowedval)
               THEN [err |-> Error("value", name), sets |-> sets]
               ELSE ValidateEntries(configmap, validation, i + 1, sets)
          ELSE IF entry.mandatory
               THEN [err |-> Error("missing", name), sets |-> sets]
               ELSE IF entry.defaultval # ""
               THEN ValidateEntries(configmap, validation, i + 1,
                                    sets \cup {<<name, entry.defaultval>>})
               ELSE ValidateEntries(configmap, validation, i + 1, sets)

\* a validation that does not look for unknown keys
configValidateOpenWorld(configmap, validation) ==
  {ValidateEntries(configmap, validation, 1, {})}

\* configValidateAndSetDefaults: the outcomes it can have on a section.
\* The scan for unknown keys ranges over a Go map, so it can name any of
\* the unknown keys.
configValidateAndSetDefaults(configmap, validation) ==
  LET r       == ValidateEntries(configmap, validation, 1, {})
      known   == {validation[i].entryname : i \in DOMAIN validation}
      unknown == DOMAIN configmap \ known
  IN IF r.err # NoError \/ unknown = {} THEN {r}
     ELSE {[err |-> Error("unknown", k), sets |-> r.sets] : k \in unknown}

\* a store that drops the defaults written to it
ApplySetsNone(m, sets) == [x \in DOMAIN m |-> m[x]]

\* the section after the kconfig.Set calls of a validation
ApplySets(m, sets) ==
  [x \in DOMAIN m \cup {p[1] : p \in sets} |->
     IF \E p \in sets : p[1] = x
     THEN StrVal((CHOOSE p \in sets : p[1] = x)[2])
     ELSE m[x]]

\* a pattern that asks for 17 hexadecimal digits
MatchInstanceIdHex(cs) ==
  \/ cs = <<108, 111, 99, 97, 108>>
  \/ /\ Len(cs) = 19
     /\ cs[1] = 105
     /\ cs[2] = 45
     /\ \A k \in 3..19 : (cs[k] >= 48 /\ cs[k] <= 57) \/ (cs[k] >= 97 /\ cs[k] <= 102)

\* regexp "^(local|i-[a-z0-9]{17})$"
IsLowerAlnum(c) == (c >= 97 /\ c <= 122) \/ (c >= 48 /\ c <= 57)
MatchInstanceId(cs) ==
  \/ cs = Chars["local"]
  \/ /\ Len(cs) = 19
     /\ cs[1] = 105
     /\ cs[2] = 45
     /\ \A k \in 3..19 : IsLowerAlnum(cs[k])

\* a pattern that lets the "=" character appear anywhere: "^[A-Za-z0-9_=-]+$"
MatchTagLoose(cs) ==
  /\ cs # <<>>
  /\ \A k \in DOMAIN cs :
       \/ (cs[k] >= 97 /\ cs[k] <= 122) \/ (cs[k] >= 48 /\ cs[k] <= 57)
       \/ (cs[k] >= 65 /\ cs[k] <= 90) \/ cs[k] = 95 \/ cs[k] = 45 \/ cs[k] = 61

\* regexp "^[A-Za-z0-9_-]+=[A-Za-z0-9_-]+$"
IsTagChar(c) == IsLowerAlnum(c) \/ (c >= 65 /\ c <= 90) \/ c = 95 \/ c = 45
MatchTag(cs) ==
  \E p \in 2..(Len(cs) - 1) :
     /\ cs[p] = 61
     /\ \A k \in (1..Len(cs)) \ {p} : IsTagChar(cs[k])

\* strings.Split(s, "="): the pieces of s between the "=" characters
RECURSIVE SplitEq(_)
SplitEq(cs) ==
  IF \A k \in DOMAIN cs : cs[k] # 61 THEN <<cs>>
  ELSE LET p == CHOOSE k \in DOMAIN cs : cs[k] = 61 /\ \A j \in 1..(k - 1) : cs[j] # 61
       IN <<SubSeq(cs, 1, p - 1)>> \o SplitEq(SubSeq(cs, p + 1, Len(cs)))

\* the (key, value) pair findRelevantVolumes passes for a tag option
ParseTag(tag) ==
  IF tag # "" /\ Len(SplitEq(Chars[tag])) = 2
  THEN [key |-> SplitEq(Chars[tag])[1], val |-> SplitEq(Chars[tag])[2]]
  ELSE [key |-> <<>>, val |-> <<>>]

----------------------------------------------------------------------------
(* LoadConfiguration of the ebs-snapshot module, as a function of the    *)
(* job's section: the outcomes it can have.                               *)

ZeroJobConfig == JobConfigEbsSnapshot(<<>>).conf

\* a resolution that accepts any retention
LoadConfigurationAnyRetention(section) ==
  IF ~JobConfigEbsSnapshot(section).ok
  THEN {[err |-> Error("unmarshal", ""), section |-> section, config |-> ZeroJobConfig]}
  ELSE { LET after == ApplySets(section, o.sets)
             dec   == JobConfigEbsSnapshot(after)
             c     == dec.conf
         IN IF o.err # NoError
            THEN [err |-> o.err, section |-> after, config |-> ZeroJobConfig]
            ELSE IF ~dec.ok
            THEN [err |-> Error("unmarshal", ""), section |-> after, config |-> ZeroJobConfig]
            ELSE IF c.InstanceId # "" /\ ~MatchInstanceId(Chars[c.InstanceId])
            THEN [err |-> Error("pattern", "instance_id"), section |-> after, config |-> c]
            ELSE IF c.InstanceTag # "" /\ ~MatchTag(Chars[c.InstanceTag])
            THEN [err |-> Error("pattern", "instance_tag"), section |-> after, config |-> c]
            ELSE IF c.VolumeTag # "" /\ ~MatchTag(Chars[c.VolumeTag])
            THEN [err |-> Error("pattern", "volume_tag"), section |-> after, config |-> c]
            ELSE [err |-> NoError, section |-> after, config |-> c]
         : o \in configValidateAndSetDefaults(section, validateConfigJobdef) }

\* a resolution that decodes the section and checks nothing
LoadConfigurationUnchecked(section) ==
  {[err |-> NoError, section |-> section,
    config |-> JobConfigEbsSnapshot(section).conf]}

LoadConfiguration(section) ==
  IF ~JobConfigEbsSnapshot(section).ok
  THEN {[err |-> Error("unmarshal", ""), section |-> section, config |-> ZeroJobConfig]}
  ELSE { LET after == ApplySets(section, o.sets)
             dec   == JobConfigEbsSnapshot(after)
             c     == dec.conf
         IN IF o.err # NoError
            THEN [err |-> o.err, section |-> after, config |-> ZeroJobConfig]
            ELSE IF ~dec.ok
            THEN [err |-> Error("unmarshal", ""), section |-> after, config |-> ZeroJobConfig]
            ELSE IF c.InstanceId # "" /\ ~MatchInstanceId(Chars[c.InstanceId])
            THEN [err |-> Error("pattern", "instance_id"), section |-> after, config |-> c]
            ELSE IF c.InstanceTag # "" /\ ~MatchTag(Chars[c.InstanceTag])
            THEN [err |-> Error("pattern", "instance_tag"), section |-> after, config |-> c]
            ELSE IF c.VolumeTag # "" /\ ~MatchTag(Chars[c.VolumeTag])
            THEN [err |-> Error("pattern", "volume_tag"), section |-> after, config |-> c]
            ELSE IF c.Retention <= 0
            THEN [err |-> Error("retention", "retention"), section |-> after, config |-> c]
            ELSE [err |-> NoError, section |-> after, config |-> c]
         : o \in configValidateAndSetDefaults(section, validateConfigJobdef) }

----------------------------------------------------------------------------
(* The inputs: the configuration document and the provider's resources *)

\* the start of the run: 2024-01-21T02:00:00Z
Now0 == 19743 * 86400 + 7200

BaseSection ==
  ("module" :> StrVal("ebs-snapshot")) @@ ("enabled" :> BoolVal(TRUE)) @@
  ("dryrun" :> BoolVal(FALSE)) @@ ("retention" :> IntVal("5")) @@
  ("aws_region" :> StrVal("us-west-2"))

\* sections that resolve and run
RunSections ==
  { BaseSection,
    SetKey(BaseSection, "dryrun", BoolVal(TRUE)),
    SetKey(BaseSection, "retention", IntVal("1")),
    SetKey(DelKey(BaseSection, "retention"), "instance_id", StrVal("local")),
    SetKey(BaseSection, "instance_id", StrVal("i-0123456789abcdef0")),
    SetKey(BaseSection, "instance_tag", StrVal("Backup=yes")),
    SetKey(BaseSection, "instance_id", StrVal("i-zzzzzzzzzzzzzzzzz")),
    SetKey(BaseSection, "volume_tag", StrVal("Backup=yes")) }

\* sections that are disabled, or that omit the enabled key
OffSections ==
  { SetKey(BaseSection, "enabled", BoolVal(FALSE)),
    DelKey(BaseSection, "enabled") }

\* sections with a configuration error
BadSections ==
  { DelKey(BaseSection, "module"),
    SetKey(BaseSection, "module", StrVal("s3-sync")),
    SetKey(BaseSection, "enabled", StrVal("abc")),
    SetKey(BaseSection, "dryrun", StrVal("true")),
    SetKey(BaseSection, "retension", IntVal("30")),
    DelKey(BaseSection, "aws_region"),
    SetKey(BaseSection, "retention", IntVal("0")),
    SetKey(BaseSection, "instance_id", StrVal("i-123")),
    SetKey(BaseSection, "volume_tag", StrVal("a=b=c")),
    SetKey(DelKey(BaseSection, "aws_region"), "dryrun", StrVal("true")),
    SetKey(DelKey(BaseSection, "aws_region"), "retension", IntVal("30")) }

\* the sections of the orchestration runs
OrchSections ==
  { BaseSection,
    SetKey(BaseSection, "dryrun", BoolVal(TRUE)),
    SetKey(DelKey(BaseSection, "retention"), "instance_id", StrVal("local")),
    SetKey(BaseSection, "instance_id", StrVal("i-zzzzzzzzzzzzzzzzz")) }
  \cup OffSections \cup BadSections

GlobalSections ==
  { <<>>, ("loglevel" :> StrVal("verbose")) }

JobNames == {"alpha", "beta"}

\* what -c names: no readable file, or a document with a global section
\* and job sections
NoFile == [found |-> FALSE, global |-> <<>>, jobs |-> <<>>]
Document(g, j) == [found |-> TRUE, global |-> g, jobs |-> j]

\* the documents of the orchestration runs: any sections under any names
Documents ==
  {NoFile} \cup
  { Document(g, j) :
      g \in GlobalSections,
      j \in UNION { [names -> OrchSections] : names \in SUBSET JobNames } }

\* the documents of the rotation runs: one job that runs, alone or beside
\* a disabled job
RotationDocuments ==
  { Document(<<>>, "alpha" :> s) : s \in RunSections } \cup
  { Document(<<>>, ("alpha" :> BaseSection) @@
                   ("beta" :> SetKey(BaseSection, "enabled", BoolVal(FALSE)))) }

\* two jobs on the same volumes, the second with a shorter retention
TwoJobDocuments ==
  { Document(<<>>, ("alpha" :> BaseSection) @@
                   ("beta" :> SetKey(BaseSection, "retention", IntVal("1")))) }

\* The provider's instances, with their tags and attached volumes.
Instance(id, name, tags, vols) ==
  [instanceId |-> id, instanceName |-> name, tags |-> tags, volumes |-> vols]
Volume(id, name, tags) == [volumeId |-> id, volumeName |-> name, tags |-> tags]

\* one instance with one volume
World1 ==
  << Instance("i-0123456789abcdef0", "web", {<<Chars["Backup"], Chars["yes"]>>},
              << Volume("vol-1", "data", {}) >>) >>

\* two instances; vol-1 is attached to both (a multi-attach volume)
World2 ==
  << Instance("i-0123456789abcdef0", "web", {},
              << Volume("vol-1", "data", {}), Volume("vol-2", "", {}) >>),
     Instance("i-0fedcba9876543210", "db", {<<Chars["Backup"], Chars["yes"]>>},
              << Volume("vol-1", "data", {}) >>) >>

\* one instance with two volumes that carry the same Name tag
World3 ==
  << Instance("i-0123456789abcdef0", "web", {},
              << Volume("vol-1", "data", {}), Volume("vol-2", "data", {}) >>) >>

Worlds == { World1, World2, World3 }

\* two instances, one tagged Backup=yes with a tagged and an untagged volume
World4 ==
  << Instance("i-0123456789abcdef0", "web", {<<Chars["Backup"], Chars["yes"]>>},
              << Volume("vol-1", "data", {<<Chars["Backup"], Chars["yes"]>>}),
                 Volume("vol-2", "", {}) >>),
     Instance("i-0fedcba9876543210", "db", {}, <<>>) >>

\* snapshot name: basename, "-", timestamp
SnapName(basename, t) == Chars[basename] \o <<45>> \o FormatRFC3339(t)

Snapshot(id, vol, desc, time, managed) ==
  [snapshotId |-> id, volumeId |-> vol, snapshotDesc |-> desc,
   snapshotTime |-> time, createdBy |-> managed]

\* snapshots the provider may hold before the run
SnapPool ==
  { Snapshot(1, "vol-1", SnapName("data", Now0 - 5 * 86400), Now0 - 5 * 86400, TRUE),
    Snapshot(2, "vol-1", SnapName("data", Now0 - 5 * 86400 - 1), Now0 - 5 * 86400 - 1, TRUE),
    Snapshot(3, "vol-1", SnapName("data", Now0 - 6 * 86400), Now0 - 6 * 86400, TRUE),
    Snapshot(4, "vol-2", SnapName("data", Now0 - 6 * 86400), Now0 - 6 * 86400, TRUE),
    Snapshot(5, "vol-1", SnapName("data", Now0 - 40 * 86400), Now0 - 40 * 86400, FALSE),
    Snapshot(6, "vol-1", SnapName("data", Now0 + 100), Now0 + 100, TRUE),
    Snapshot(7, "vol-1", SnapName("data", Now0 - 2 * 86400 + 1), Now0 - 2 * 86400 + 1, TRUE) }

FirstNewId == Cardinality(SnapPool) + 1

----------------------------------------------------------------------------
(* The state *)

VARIABLES
  configfile,     \* the document the configuration file holds (input)
  world,          \* the provider's instances and volumes (input)
  snapshots,      \* the provider's snapshots
  nextId,         \* the identifier the provider gives the next snapshot
  clock,          \* the wall clock, in epoch seconds
  pc,             \* where the process is
  exitStatus,     \* the status given to os.Exit, -1 while running
  kconfig,        \* the configuration store
  jobmetadefs,    \* job name -> JobMetaConfig
  jobnames,       \* main: the sorted list of job names
  jobidx,         \* main: position in jobnames
  errcount,       \* main: jobs that returned an error
  jobcount,       \* main: jobs that were run
  b,              \* the module of the running job: config, volumes
  instances,      \* findRelevantVolumes: the instances found
  results,        \* findRelevantVolumes: the volumes found so far
  idx,            \* position of the loop in progress
  snapshotNames,  \* ListBackups: the descriptions found so far
  resultsUnordered, \* ListBackups: description -> item
  bkpitems,       \* the items handed to DeleteOldBackups
  curtime,        \* DeleteOldBackups: the time it read
  status,         \* history: job name -> pending, skipped, ok or failed
  failure,        \* history: job name -> the stage at which it failed
  running,        \* history: the job last started, "" before the first
  before,         \* history: the provider's snapshots when it started
  lasterr,        \* history: the error its resolution returned
  calls,          \* history: the collaborator calls of the job last started
  decisions,      \* history: the pruning decisions of the job last started
  other           \* a second run of the process on the same file and provider

vars == << configfile, world, snapshots, nextId, clock, pc, exitStatus,
           kconfig, jobmetadefs, jobnames, jobidx, errcount, jobcount, b,
           instances, results, idx, snapshotNames, resultsUnordered,
           bkpitems, curtime, status, failure, running, before, lasterr,
           calls, decisions, other >>

envVars  == << configfile, world, other >>
runVars  == << running, before, lasterr >>
mainVars == << jobmetadefs, jobnames >>
jobVars  == << b, instances, results, idx, snapshotNames, resultsUnordered,
               bkpitems, curtime >>

ExitStatusSuccessfulExecution  == 0
ExitStatusInvalidConfiguration == 1
ExitStatusFailedToExecuteJobs  == 2

NoModule == [config |-> ZeroJobConfig, volumes |-> <<>>]

\* the state of a run at its start, on one of the documents and worlds
InitRun(documents, worlds, pool) ==
  /\ configfile \in documents
  /\ world \in worlds
  /\ snapshots \in {S \in SUBSET pool : Cardinality(S) <= MaxSnaps}
  /\ nextId = FirstNewId
  /\ clock = Now0
  /\ pc = "start"
  /\ exitStatus = -1
  /\ kconfig = [global |-> <<>>, jobs |-> <<>>]
  /\ jobmetadefs = <<>>
  /\ jobnames = <<>>
  /\ jobidx = 1
  /\ errcount = 0
  /\ jobcount = 0
  /\ b = NoModule
  /\ instances = <<>>
  /\ results = <<>>
  /\ idx = 1
  /\ snapshotNames = <<>>
  /\ resultsUnordered = <<>>
  /\ bkpitems = <<>>
  /\ curtime = 0
  /\ status = [n \in JobNames |-> "pending"]
  /\ failure = [n \in JobNames |-> "none"]
  /\ running = ""
  /\ before = {}
  /\ lasterr = NoError
  /\ calls = <<>>
  /\ decisions = <<>>

\* the second run: where it is, the module of its job, its loops, the status
\* and the collaborator calls of its job
OtherRun(at) ==
  [pc |-> at, config |-> ZeroJobConfig, volumes |-> <<>>, idx |-> 1,
   snapshotNames |-> <<>>, resultsUnordered |-> <<>>, bkpitems |-> <<>>,
   curtime |-> 0, status |-> "pending", calls |-> <<>>]

\* no second run
NoOther == OtherRun("off")

InitWith(documents, worlds, pool) ==
  /\ other = NoOther
  /\ InitRun(documents, worlds, pool)

\* time.Now(): the clock may have advanced since it was last read
Now == {t \in clock..(clock + 1) : t - Now0 <= MaxClockSteps}

jobname == jobnames[jobidx]

Call(op, arg, ok) == [job |-> jobname, op |-> op, arg |-> arg, ok |-> ok]

\* os.Exit(code)
Exit(code) ==
  /\ pc' = "exit"
  /\ exitStatus' = code

\* a main loop that leaves at the first failed job
ReturnBreak(stage) ==
  /\ pc' = "loop"
  /\ errcount' = IF stage = "none" THEN errcount ELSE errcount + 1
  /\ jobcount' = jobcount + 1
  /\ jobidx' = IF stage = "none" THEN jobidx + 1 ELSE Len(jobnames) + 1
  /\ status' = [status EXCEPT ![jobname] = IF stage = "none" THEN "ok" ELSE "failed"]
  /\ failure' = [failure EXCEPT ![jobname] = stage]
  /\ UNCHANGED exitStatus

\* runJob returns to main, lines 303-308: the tally, then the next job
Return(stage) ==
  /\ pc' = "loop"
  /\ errcount' = IF stage = "none" THEN errcount ELSE errcount + 1
  /\ jobcount' = jobcount + 1
  /\ jobidx' = jobidx + 1
  /\ status' = [status EXCEPT ![jobname] = IF stage = "none" THEN "ok" ELSE "failed"]
  /\ failure' = [failure EXCEPT ![jobname] = stage]
  /\ UNCHANGED exitStatus

----------------------------------------------------------------------------
(* main *)

validmods == {"ebs-snapshot"}

\* main lines 265-296: readConfiguration, the log level, the sorted job list
ReadConfiguration ==
  /\ pc = "start"
  /\ \E g \in configValidateAndSetDefaults(configfile.global, validateConfigGlobal) :
       LET loaded == [global |-> ApplySets(configfile.global, g.sets),
                      jobs |-> configfile.jobs]
           metas  == [n \in DOMAIN configfile.jobs |-> JobMetaConfig(configfile.jobs[n])]
           names  == {Chars[n] : n \in DOMAIN configfile.jobs}
       IN IF ~configfile.found
          THEN /\ Exit(ExitStatusInvalidConfiguration)
               /\ UNCHANGED << kconfig, jobmetadefs, jobnames >>
          ELSE IF g.err # NoError
          THEN /\ Exit(ExitStatusInvalidConfiguration)
               /\ kconfig' = loaded
               /\ UNCHANGED << jobmetadefs, jobnames >>
          ELSE IF \E n \in DOMAIN metas : ~metas[n].ok
          THEN /\ Exit(ExitStatusInvalidConfiguration)
               /\ kconfig' = loaded
               /\ UNCHANGED << jobmetadefs, jobnames >>
          ELSE IF \E n \in DOMAIN metas : metas[n].conf.Module \notin validmods
          THEN /\ Exit(ExitStatusInvalidConfiguration)
               /\ kconfig' = loaded
               /\ jobmetadefs' = [n \in DOMAIN metas |-> metas[n].conf]
               /\ UNCHANGED jobnames
          ELSE IF loaded.global["loglevel"].s \notin {"error", "warn", "info", "debug"}
          THEN /\ Exit(ExitStatusInvalidConfiguration)
               /\ kconfig' = loaded
               /\ jobmetadefs' = [n \in DOMAIN metas |-> metas[n].conf]
               /\ UNCHANGED jobnames
          ELSE /\ kconfig' = loaded
               /\ jobmetadefs' = [n \in DOMAIN metas |-> metas[n].conf]
               /\ \E order \in Perms(names) :
                    jobnames' = [i \in DOMAIN order |-> Unchars(SortStrings(order)[i])]
               /\ pc' = "loop"
               /\ UNCHANGED exitStatus
  /\ UNCHANGED << envVars, runVars, snapshots, nextId, clock, jobidx, errcount, jobcount,
                  jobVars, status, failure, calls, decisions >>

\* a main loop that runs every job of the file
JobEnabledAlways(jobconfig) == jobconfig.Enabled \in BOOLEAN

\* main line 301: whether the job is run
JobEnabled(jobconfig) == jobconfig.Enabled = TRUE

\* main lines 299-303 and runJob lines 32-42: an enabled job is started
RunJob ==
  /\ pc = "loop"
  /\ jobidx <= Len(jobnames)
  /\ JobEnabled(jobmetadefs[jobname])
  /\ running' = jobname
  /\ before' = snapshots
  /\ lasterr' = NoError
  /\ calls' = <<>>
  /\ decisions' = <<>>
  /\ b' = NoModule
  /\ instances' = <<>>
  /\ results' = <<>>
  /\ idx' = 1
  /\ snapshotNames' = <<>>
  /\ resultsUnordered' = <<>>
  /\ bkpitems' = <<>>
  /\ curtime' = 0
  /\ IF jobmetadefs[jobname].Module = "ebs-snapshot"
     THEN /\ pc' = "load"
          /\ UNCHANGED << exitStatus, jobidx, errcount, jobcount, status, failure >>
     ELSE Return("module")
  /\ UNCHANGED << envVars, snapshots, nextId, clock, kconfig, mainVars >>

\* main lines 309-311: a job that is not enabled is skipped
SkipJob ==
  /\ pc = "loop"
  /\ jobidx <= Len(jobnames)
  /\ ~JobEnabled(jobmetadefs[jobname])
  /\ jobidx' = jobidx + 1
  /\ status' = [status EXCEPT ![jobname] = "skipped"]
  /\ UNCHANGED << envVars, runVars, snapshots, nextId, clock, pc, exitStatus, kconfig,
                  mainVars, errcount, jobcount, jobVars, failure, calls, decisions >>

\* an exit status that tolerates one failed job
FinalStatusTolerant(errs) ==
  IF errs > 1 THEN ExitStatusFailedToExecuteJobs
  ELSE ExitStatusSuccessfulExecution

\* main lines 314-320: the exit status of a run that attempted its jobs
FinalStatus(errs) ==
  IF errs > 0 THEN ExitStatusFailedToExecuteJobs ELSE ExitStatusSuccessfulExecution

Finish ==
  /\ pc = "loop"
  /\ jobidx > Len(jobnames)
  /\ Exit(FinalStatus(errcount))
  /\ UNCHANGED << envVars, runVars, snapshots, nextId, clock, kconfig, mainVars, jobidx,
                  errcount, jobcount, jobVars, status, failure, calls, decisions >>

----------------------------------------------------------------------------
(* runJob and the ebs-snapshot module *)

\* runJob lines 44-48: LoadConfiguration
LoadConfigurationStep ==
  /\ pc = "load"
  /\ \E o \in LoadConfiguration(kconfig.jobs[jobname]) :
       /\ kconfig' = [kconfig EXCEPT !.jobs[jobname] = o.section]
       /\ lasterr' = o.err
       /\ IF o.err # NoError
          THEN /\ Return("load")
               /\ UNCHANGED b
          ELSE /\ b' = [b EXCEPT !.config = o.config]
               /\ pc' = "init"
               /\ UNCHANGED << exitStatus, jobidx, errcount, jobcount, status, failure >>
  /\ UNCHANGED << envVars, running, before, mainVars, snapshots, nextId, clock,
                  instances, results, idx, snapshotNames, resultsUnordered,
                  bkpitems, curtime, calls, decisions >>

\* ProviderAwsGetCurrentInstance: the identifier of the host, or an error
ProviderAwsGetCurrentInstance ==
  {[ok |-> FALSE, id |-> ""]} \cup
  {[ok |-> TRUE, id |-> world[i].instanceId] : i \in DOMAIN world}

\* an initialisation that detects the host and keeps the selector as it is
InitialiseModuleKeepsLocal ==
  /\ pc = "init"
  /\ \E loaded \in BOOLEAN, cur \in ProviderAwsGetCurrentInstance :
       IF ~loaded
       THEN /\ Return("init")
            /\ UNCHANGED << b, calls >>
       ELSE IF b.config.InstanceId = "local"
       THEN /\ calls' = Append(calls, Call("detect", cur.id, cur.ok))
            /\ IF cur.ok
               THEN /\ b' = b
                    /\ pc' = "instances"
                    /\ UNCHANGED << exitStatus, jobidx, errcount, jobcount, status, failure >>
               ELSE /\ Return("init")
                    /\ b' = [b EXCEPT !.config.InstanceId = ""]
       ELSE /\ cur = [ok |-> FALSE, id |-> ""]
            /\ pc' = "instances"
            /\ UNCHANGED << b, calls, exitStatus, jobidx, errcount, jobcount, status, failure >>
  /\ UNCHANGED << envVars, runVars, mainVars, snapshots, nextId, clock, kconfig, instances,
                  results, idx, snapshotNames, resultsUnordered, bkpitems, curtime,
                  decisions >>

\* InitialiseModule lines 194-215: the AWS configuration, the local instance
InitialiseModule ==
  /\ pc = "init"
  /\ \E loaded \in BOOLEAN, cur \in ProviderAwsGetCurrentInstance :
       IF ~loaded
       THEN /\ Return("init")
            /\ UNCHANGED << b, calls >>
       ELSE IF b.config.InstanceId = "local"
       THEN /\ calls' = Append(calls, Call("detect", cur.id, cur.ok))
            /\ IF cur.ok
               THEN /\ b' = [b EXCEPT !.config.InstanceId = cur.id]
                    /\ pc' = "instances"
                    /\ UNCHANGED << exitStatus, jobidx, errcount, jobcount, status, failure >>
               ELSE /\ Return("init")
                    /\ b' = [b EXCEPT !.config.InstanceId = ""]
       ELSE /\ cur = [ok |-> FALSE, id |-> ""]
            /\ pc' = "instances"
            /\ UNCHANGED << b, calls, exitStatus, jobidx, errcount, jobcount, status, failure >>
  /\ UNCHANGED << envVars, runVars, mainVars, snapshots, nextId, clock, kconfig, instances,
                  results, idx, snapshotNames, resultsUnordered, bkpitems, curtime,
                  decisions >>

\* whether a resource with these tags passes a (key, value) filter
TagMatches(tags, tag) == tag.key = <<>> \/ <<tag.key, tag.val>> \in tags

\* ProviderAwsGetEc2Instances: the instances that pass the filters
RECURSIVE SelectInstances(_, _, _)
SelectInstances(seq, instanceId, tag) ==
  IF seq = <<>> THEN <<>>
  ELSE IF /\ (instanceId = "" \/ Head(seq).instanceId = instanceId)
          /\ TagMatches(Head(seq).tags, tag)
       THEN <<Head(seq)>> \o SelectInstances(Tail(seq), instanceId, tag)
       ELSE SelectInstances(Tail(seq), instanceId, tag)

RECURSIVE SelectVolumes(_, _)
SelectVolumes(seq, tag) ==
  IF seq = <<>> THEN <<>>
  ELSE IF TagMatches(Head(seq).tags, tag)
       THEN <<[volumeId |-> Head(seq).volumeId, volumeName |-> Head(seq).volumeName]>>
            \o SelectVolumes(Tail(seq), tag)
       ELSE SelectVolumes(Tail(seq), tag)

ProviderAwsGetEc2Instances(instanceId, tag) == SelectInstances(world, instanceId, tag)

\* ProviderAwsGetEbsVolumes: the volumes attached to the instance that pass
\* the filter
ProviderAwsGetEbsVolumes(instanceId, tag) ==
  LET i == CHOOSE k \in DOMAIN world : world[k].instanceId = instanceId
  IN SelectVolumes(world[i].volumes, tag)

\* findRelevantVolumes lines 226-258: the tags, the instances
FindInstances ==
  /\ pc = "instances"
  /\ \E ok \in BOOLEAN :
       LET insttag == ParseTag(b.config.InstanceTag)
       IN /\ calls' = Append(calls, Call("instances", b.config.InstanceId, ok))
          /\ IF ok
             THEN /\ instances' = ProviderAwsGetEc2Instances(b.config.InstanceId, insttag)
                  /\ results' = <<>>
                  /\ idx' = 1
                  /\ pc' = "volumes"
                  /\ UNCHANGED << exitStatus, jobidx, errcount, jobcount, status, failure >>
             ELSE /\ Return("init")
                  /\ UNCHANGED << instances, results, idx >>
  /\ UNCHANGED << envVars, runVars, mainVars, snapshots, nextId, clock, kconfig, b,
                  snapshotNames, resultsUnordered, bkpitems, curtime, decisions >>

\* findRelevantVolumes lines 261-275: the volumes of one instance
FindVolumes ==
  /\ pc = "volumes"
  /\ idx <= Len(instances)
  /\ \E ok \in BOOLEAN :
       LET voltag == ParseTag(b.config.VolumeTag)
           id     == instances[idx].instanceId
       IN /\ calls' = Append(calls, Call("volumes", id, ok))
          /\ IF ok
             THEN /\ results' = results \o ProviderAwsGetEbsVolumes(id, voltag)
                  /\ idx' = idx + 1
                  /\ UNCHANGED << pc, exitStatus, jobidx, errcount, jobcount, status, failure >>
             ELSE /\ Return("init")
                  /\ UNCHANGED << results, idx >>
  /\ UNCHANGED << envVars, runVars, mainVars, snapshots, nextId, clock, kconfig, b, instances,
                  snapshotNames, resultsUnordered, bkpitems, curtime, decisions >>

\* a location that fails when no volume is in scope
FoundVolumesStrict ==
  /\ pc = "volumes"
  /\ idx > Len(instances)
  /\ IF results = <<>>
     THEN /\ Return("init")
          /\ UNCHANGED << b, idx >>
     ELSE /\ b' = [b EXCEPT !.volumes = results]
          /\ idx' = 1
          /\ pc' = "create"
          /\ UNCHANGED << exitStatus, jobidx, errcount, jobcount, status, failure >>
  /\ UNCHANGED << envVars, runVars, mainVars, snapshots, nextId, clock, kconfig,
                  instances, results, snapshotNames, resultsUnordered, bkpitems,
                  curtime, calls, decisions >>

\* findRelevantVolumes lines 276-281 and InitialiseModule lines 219-223
FoundVolumes ==
  /\ pc = "volumes"
  /\ idx > Len(instances)
  /\ b' = [b EXCEPT !.volumes = results]
  /\ idx' = 1
  /\ pc' = "create"
  /\ UNCHANGED << envVars, runVars, mainVars, snapshots, nextId, clock, exitStatus, kconfig,
                  jobidx, errcount, jobcount, instances, results, snapshotNames,
                  resultsUnordered, bkpitems, curtime, status, failure, calls,
                  decisions >>

\* CreateBackup lines 289-293
Basename(curvol) ==
  IF curvol.volumeName # "" THEN curvol.volumeName ELSE curvol.volumeId

\* a module that ignores the dryrun option
MutatesAlways(config) == config.DryRun \in BOOLEAN

\* CreateBackup line 298 and DeleteOldBackups line 361: whether the
\* provider is really called
Mutates(config) == config.DryRun = FALSE

\* a creation that goes on to the next volume after a failure
CreateBackupContinues ==
  /\ pc = "create"
  /\ idx <= Len(b.volumes)
  /\ \E now \in Now, ok \in BOOLEAN :
       LET curvol   == b.volumes[idx]
           snapname == SnapName(Basename(curvol), now)
       IN /\ clock' = now
          /\ idx' = idx + 1
          /\ IF Mutates(b.config)
             THEN /\ calls' = Append(calls, Call("create", curvol.volumeId, ok))
                  /\ IF ok
                     THEN /\ snapshots' = snapshots \cup
                               {Snapshot(nextId, curvol.volumeId, snapname, now, TRUE)}
                          /\ nextId' = nextId + 1
                     ELSE UNCHANGED << snapshots, nextId >>
             ELSE /\ ok
                  /\ UNCHANGED << snapshots, nextId, calls >>
  /\ UNCHANGED << envVars, runVars, mainVars, kconfig, b, instances, results, snapshotNames,
                  resultsUnordered, bkpitems, curtime, decisions, pc, exitStatus,
                  jobidx, errcount, jobcount, status, failure >>

\* CreateBackup lines 287-307: one volume
CreateBackup ==
  /\ pc = "create"
  /\ idx <= Len(b.volumes)
  /\ \E now \in Now, ok \in BOOLEAN :
       LET curvol   == b.volumes[idx]
           snapname == SnapName(Basename(curvol), now)
       IN /\ clock' = now
          /\ IF Mutates(b.config)
             THEN /\ calls' = Append(calls, Call("create", curvol.volumeId, ok))
                  /\ IF ok
                     THEN /\ snapshots' = snapshots \cup
                               {Snapshot(nextId, curvol.volumeId, snapname, now, TRUE)}
                          /\ nextId' = nextId + 1
                          /\ idx' = idx + 1
                          /\ UNCHANGED << pc, exitStatus, jobidx, errcount, jobcount,
                                          status, failure >>
                     ELSE /\ Return("create")
                          /\ UNCHANGED << snapshots, nextId, idx >>
             ELSE /\ ok
                  /\ idx' = idx + 1
                  /\ UNCHANGED << snapshots, nextId, calls, pc, exitStatus, jobidx,
                                  errcount, jobcount, status, failure >>
  /\ UNCHANGED << envVars, runVars, mainVars, kconfig, b, instances, results, snapshotNames,
                  resultsUnordered, bkpitems, curtime, decisions >>

\* CreateBackup line 309 and ListBackups lines 313-315
CreatedBackups ==
  /\ pc = "create"
  /\ idx > Len(b.volumes)
  /\ pc' = "list"
  /\ idx' = 1
  /\ snapshotNames' = <<>>
  /\ resultsUnordered' = <<>>
  /\ UNCHANGED << envVars, runVars, mainVars, snapshots, nextId, clock, exitStatus, kconfig,
                  jobidx, errcount, jobcount, b, instances, results, bkpitems,
                  curtime, status, failure, calls, decisions >>

\* the snapshots of S by increasing identifier
RECURSIVE ById(_)
ById(S) ==
  IF S = {} THEN <<>>
  ELSE LET m == CHOOSE s \in S : \A t \in S : s.snapshotId <= t.snapshotId
       IN <<m>> \o ById(S \ {m})

Reverse(seq) == [i \in DOMAIN seq |-> seq[Len(seq) + 1 - i]]

\* a listing that returns the snapshots of the volume whatever their tags
ProviderAwsGetEbsSnapshotsAnyTag(volumeId) ==
  LET found == ById({s \in snapshots : s.volumeId = volumeId})
  IN {found, Reverse(found)}

\* ProviderAwsGetEbsSnapshots: the snapshots of the volume that carry the
\* tag CreatedBy=molibackup. The provider fixes no order: the answers
\* modelled are oldest identifier first and newest identifier first.
ProviderAwsGetEbsSnapshots(volumeId) ==
  LET found == ById({s \in snapshots : s.createdBy /\ s.volumeId = volumeId})
  IN {found, Reverse(found)}

BackupItem(snapshot) ==
  [identifier |-> snapshot.snapshotId, description |-> snapshot.snapshotDesc,
   timestamp |-> snapshot.snapshotTime]

\* ListBackups lines 326-336: the items of one answer, in its order
RECURSIVE CollectNames(_, _)
CollectNames(names, found) ==
  IF found = <<>> THEN names
  ELSE CollectNames(Append(names, Head(found).snapshotDesc), Tail(found))

RECURSIVE CollectItems(_, _)
CollectItems(items, found) ==
  IF found = <<>> THEN items
  ELSE CollectItems(SetKey(items, Head(found).snapshotDesc, BackupItem(Head(found))),
                    Tail(found))

\* ListBackups lines 318-337: one volume
ListBackups ==
  /\ pc = "list"
  /\ idx <= Len(b.volumes)
  /\ \E ok \in BOOLEAN, found \in ProviderAwsGetEbsSnapshots(b.volumes[idx].volumeId) :
       /\ calls' = Append(calls, Call("list", b.volumes[idx].volumeId, ok))
       /\ IF ok
          THEN /\ snapshotNames' = CollectNames(snapshotNames, found)
               /\ resultsUnordered' = CollectItems(resultsUnordered, found)
               /\ idx' = idx + 1
               /\ UNCHANGED << pc, exitStatus, jobidx, errcount, jobcount, status, failure >>
          ELSE /\ found = CHOOSE f \in ProviderAwsGetEbsSnapshots(b.volumes[idx].volumeId) : TRUE
               /\ Return("list")
               /\ UNCHANGED << snapshotNames, resultsUnordered, idx >>
  /\ UNCHANGED << envVars, runVars, mainVars, snapshots, nextId, clock, kconfig, b, instances,
                  results, bkpitems, curtime, decisions >>

\* ListBackups lines 339-347: the items in the order of the sorted names
ResultsOrdered(names, items) ==
  [i \in DOMAIN names |-> items[SortStrings(names)[i]]]

\* ListBackups lines 339-347 and DeleteOldBackups lines 352-353
ListedBackups ==
  /\ pc = "list"
  /\ idx > Len(b.volumes)
  /\ bkpitems' = ResultsOrdered(snapshotNames, resultsUnordered)
  /\ snapshotNames' = <<>>
  /\ resultsUnordered' = <<>>
  /\ \E now \in Now :
       /\ clock' = now
       /\ curtime' = now
  /\ idx' = 1
  /\ pc' = "delete"
  /\ UNCHANGED << envVars, runVars, mainVars, snapshots, nextId, exitStatus, kconfig, jobidx,
                  errcount, jobcount, b, instances, results, status, failure, calls,
                  decisions >>

\* an age that counts a started day as a whole one
SnapshotAgeCeil(now, timestamp) == GoDiv(now - timestamp + 86399, 86400)

\* DeleteOldBackups line 356
SnapshotAge(now, timestamp) == GoDiv(now - timestamp, 86400)

\* a pruning that applies the longest retention of the file, 5 days
SnapDeleteLongestRetention(snapshotAge, retention) == snapshotAge > 5

\* a pruning that deletes every item that is not from the future
SnapDeleteNotNegative(snapshotAge, retention) == snapshotAge >= 0

\* a pruning that deletes at the retention, not beyond it
SnapDeleteAtRetention(snapshotAge, retention) == snapshotAge >= retention

\* DeleteOldBackups line 357
SnapDelete(snapshotAge, retention) == snapshotAge > retention

\* a provider that accepts the deletion of a snapshot it no longer holds
ProviderAwsDeleteEbsSnapshotIdempotent(snapshotId) == BOOLEAN

\* ProviderAwsDeleteEbsSnapshot: fails on a snapshot that does not exist
ProviderAwsDeleteEbsSnapshot(snapshotId) ==
  IF \E s \in snapshots : s.snapshotId = snapshotId THEN BOOLEAN ELSE {FALSE}

\* a pruning that goes on to the next item after a failure
DeleteOldBackupsContinues ==
  /\ pc = "delete"
  /\ idx <= Len(bkpitems)
  /\ LET item        == bkpitems[idx]
         retention   == b.config.Retention
         snapshotAge == SnapshotAge(curtime, item.timestamp)
         snapDelete  == SnapDelete(snapshotAge, retention)
     IN \E ok \in ProviderAwsDeleteEbsSnapshot(item.identifier) :
          /\ decisions' = Append(decisions,
                [job |-> jobname, item |-> item, age |-> snapshotAge,
                 retention |-> retention, delete |-> snapDelete,
                 dryrun |-> ~Mutates(b.config)])
          /\ idx' = idx + 1
          /\ IF snapDelete /\ Mutates(b.config)
             THEN /\ calls' = Append(calls, Call("delete", item.identifier, ok))
                  /\ snapshots' = IF ok
                                  THEN {s \in snapshots : s.snapshotId # item.identifier}
                                  ELSE snapshots
             ELSE /\ ok = FALSE
                  /\ UNCHANGED << snapshots, calls >>
  /\ UNCHANGED << envVars, runVars, mainVars, nextId, clock, kconfig, b, instances, results,
                  snapshotNames, resultsUnordered, bkpitems, curtime, pc, exitStatus,
                  jobidx, errcount, jobcount, status, failure >>

\* DeleteOldBackups lines 355-373: one item
DeleteOldBackups ==
  /\ pc = "delete"
  /\ idx <= Len(bkpitems)
  /\ LET item        == bkpitems[idx]
         retention   == b.config.Retention
         snapshotAge == SnapshotAge(curtime, item.timestamp)
         snapDelete  == SnapDelete(snapshotAge, retention)
     IN \E ok \in ProviderAwsDeleteEbsSnapshot(item.identifier) :
          /\ decisions' = Append(decisions,
                [job |-> jobname, item |-> item, age |-> snapshotAge,
                 retention |-> retention, delete |-> snapDelete,
                 dryrun |-> ~Mutates(b.config)])
          /\ IF snapDelete /\ Mutates(b.config)
             THEN /\ calls' = Append(calls, Call("delete", item.identifier, ok))
                  /\ IF ok
                     THEN /\ snapshots' = {s \in snapshots : s.snapshotId # item.identifier}
                          /\ idx' = idx + 1
                          /\ UNCHANGED << pc, exitStatus, jobidx, errcount, jobcount,
                                          status, failure >>
                     ELSE /\ Return("delete")
                          /\ UNCHANGED << snapshots, idx >>
             ELSE /\ ok = FALSE
                  /\ idx' = idx + 1
                  /\ UNCHANGED << snapshots, calls, pc, exitStatus, jobidx, errcount,
                                  jobcount, status, failure >>
  /\ UNCHANGED << envVars, runVars, mainVars, nextId, clock, kconfig, b, instances, results,
                  snapshotNames, resultsUnordered, bkpitems, curtime >>

\* DeleteOldBackups line 375 and runJob line 74
DeletedOldBackups ==
  /\ pc = "delete"
  /\ idx > Len(bkpitems)
  /\ Return("none")
  /\ UNCHANGED << envVars, runVars, mainVars, snapshots, nextId, clock, kconfig, jobVars,
                  calls, decisions >>

Next ==
  \/ ReadConfiguration
  \/ RunJob
  \/ SkipJob
  \/ Finish
  \/ LoadConfigurationStep
  \/ InitialiseModule
  \/ FindInstances
  \/ FindVolumes
  \/ FoundVolumes
  \/ CreateBackup
  \/ CreatedBackups
  \/ ListBackups
  \/ ListedBackups
  \/ DeleteOldBackups
  \/ DeletedOldBackups

\* the orchestration runs: every kind of document, one instance with one volume
Init == InitWith(Documents, {World1}, {s \in SnapPool : s.snapshotId = 3})

Spec == Init /\ [][Next]_vars

\* the rotation runs: documents that resolve, every world, every snapshot
InitRotation ==
  \/ InitWith(RotationDocuments, Worlds, SnapPool)
  \/ InitWith(TwoJobDocuments, {World1}, SnapPool)

SpecRotation == InitRotation /\ [][Next]_vars

----------------------------------------------------------------------------
(* The validation of one section, on every section of a family: the call *)
(* of configValidateAndSetDefaults that readConfiguration makes for the   *)
(* global section and the one LoadConfiguration makes for a job section.  *)

\* a key that a section leaves out
Absent == [t |-> "absent", s |-> ""]

\* the section with the given values for its keys, the absent ones left out
SectionOf(f) == [k \in {x \in DOMAIN f : f[x] # Absent} |-> f[k]]

\* job sections: each key absent, well formed or not, and two unknown keys
ValidationSections ==
  { SectionOf(("module" :> m) @@ ("enabled" :> e) @@ ("dryrun" :> d) @@
              ("retention" :> r) @@ ("aws_region" :> a) @@
              ("instance_id" :> i) @@ ("retension" :> u) @@ ("region" :> v)) :
      m \in {Absent, StrVal("ebs-snapshot"), StrVal("s3-sync")},
      e \in {Absent, BoolVal(TRUE), StrVal("abc")},
      d \in {Absent, BoolVal(FALSE), StrVal("true")},
      r \in {Absent, IntVal("5"), StrVal("30")},
      a \in {Absent, StrVal("us-west-2")},
      i \in {Absent, StrVal("local")},
      u \in {Absent, IntVal("30")},
      v \in {Absent, StrVal("us-west-2")} }

\* global sections: the log level absent, allowed or not, and two unknown keys
ValidationGlobals ==
  { SectionOf(("loglevel" :> l) @@ ("retension" :> u) @@ ("region" :> v)) :
      l \in {Absent, StrVal("debug"), StrVal("verbose"), IntVal("5")},
      u \in {Absent, IntVal("30")},
      v \in {Absent, StrVal("us-west-2")} }

ValidationDocuments ==
  { Document(<<>>, "alpha" :> j) : j \in ValidationSections } \cup
  { Document(g, "alpha" :> BaseSection) : g \in ValidationGlobals }

\* readConfiguration lines 113-121: the file is loaded into the store and
\* its global section validated
ValidateGlobal ==
  /\ pc = "start"
  /\ configfile.found
  /\ \E o \in configValidateAndSetDefaults(configfile.global, validateConfigGlobal) :
       /\ kconfig' = [global |-> ApplySets(configfile.global, o.sets),
                      jobs |-> configfile.jobs]
       /\ lasterr' = o.err
  /\ pc' = "validatedGlobal"
  /\ UNCHANGED << envVars, running, before, mainVars, snapshots, nextId, clock,
                  exitStatus, jobidx, errcount, jobcount, jobVars, status,
                  failure, calls, decisions >>

\* LoadConfiguration lines 142-144: the section of a job is validated in the
\* store
ValidateJobdef ==
  /\ pc = "start"
  /\ configfile.found
  /\ \E n \in DOMAIN configfile.jobs :
       \E o \in configValidateAndSetDefaults(configfile.jobs[n], validateConfigJobdef) :
         /\ kconfig' = [global |-> configfile.global,
                        jobs |-> [configfile.jobs EXCEPT
                                    ![n] = ApplySets(configfile.jobs[n], o.sets)]]
         /\ lasterr' = o.err
  /\ pc' = "validatedJobdef"
  /\ UNCHANGED << envVars, running, before, mainVars, snapshots, nextId, clock,
                  exitStatus, jobidx, errcount, jobcount, jobVars, status,
                  failure, calls, decisions >>

NextValidation ==
  \/ ValidateGlobal
  \/ ValidateJobdef

InitValidation == InitWith(ValidationDocuments, {World1}, {})

SpecValidation == InitValidation /\ [][NextValidation]_vars

----------------------------------------------------------------------------
(* The runs on tag filters: one job whose instance_tag and volume_tag range *)
(* over well-formed and ill-formed strings, beside a disabled job.          *)

TagOptions ==
  { Absent, StrVal(""), StrVal("Backup=yes"), StrVal("Backup=no"),
    StrVal("Backup"), StrVal("Backup="), StrVal("=yes"), StrVal("="),
    StrVal("a=b=c"), StrVal("Backup==yes"), StrVal("Back up=yes") }

TagDocuments ==
  { Document(<<>>,
      ("alpha" :> SectionOf(BaseSection @@ ("instance_tag" :> it) @@ ("volume_tag" :> vt))) @@
      ("beta" :> SetKey(BaseSection, "enabled", BoolVal(FALSE)))) :
      it \in TagOptions, vt \in TagOptions }

InitTags == InitWith(TagDocuments, {World4}, {s \in SnapPool : s.snapshotId = 3})

SpecTags == InitTags /\ [][Next]_vars

----------------------------------------------------------------------------
(* Two runs of the process at the same time, on the same file and the same *)
(* provider. The first run is the one above; the second takes the same      *)
(* steps on its own copy of the module (other). The two share nothing but   *)
(* the provider and the clock.                                              *)

OtherCall(op, arg, ok) == [job |-> "alpha", op |-> op, arg |-> arg, ok |-> ok]

\* findRelevantVolumes lines 261-275: the volumes of the instances, in order
RECURSIVE VolumesOf(_, _)
VolumesOf(insts, voltag) ==
  IF insts = <<>> THEN <<>>
  ELSE ProviderAwsGetEbsVolumes(Head(insts).instanceId, voltag)
       \o VolumesOf(Tail(insts), voltag)

\* main up to runJob, LoadConfiguration and InitialiseModule of the job alpha
\* in the second run: these stages read the file and enumerate the instances
\* and volumes, and change nothing the two runs share
OtherInitialiseModule ==
  /\ other.pc = "start"
  /\ configfile.found
  /\ "alpha" \in DOMAIN configfile.jobs
  /\ JobEnabled(JobMetaConfig(configfile.jobs["alpha"]).conf)
  /\ \E o \in LoadConfiguration(configfile.jobs["alpha"]), ok \in BOOLEAN,
        cur \in ProviderAwsGetCurrentInstance :
       LET id == IF o.config.InstanceId = "local" THEN cur.id ELSE o.config.InstanceId
           found == ProviderAwsGetEc2Instances(id, ParseTag(o.config.InstanceTag))
       IN IF o.err # NoError \/ ~ok \/ (o.config.InstanceId = "local" /\ ~cur.ok)
          THEN /\ cur = [ok |-> FALSE, id |-> ""]
               /\ other' = [other EXCEPT !.pc = "done", !.status = "failed"]
          ELSE /\ (o.config.InstanceId # "local" => cur = [ok |-> FALSE, id |-> ""])
               /\ other' = [other EXCEPT
                              !.pc = "create",
                              !.config = [o.config EXCEPT !.InstanceId = id],
                              !.volumes = VolumesOf(found, ParseTag(o.config.VolumeTag)),
                              !.idx = 1]
  /\ UNCHANGED << configfile, world, runVars, mainVars, jobVars, snapshots, nextId,
                  clock, pc, exitStatus, kconfig, jobidx, errcount, jobcount, status,
                  failure, calls, decisions >>

\* CreateBackup lines 287-307 in the second run: one volume
OtherCreateBackup ==
  /\ other.pc = "create"
  /\ other.idx <= Len(other.volumes)
  /\ \E now \in Now, ok \in BOOLEAN :
       LET curvol   == other.volumes[other.idx]
           snapname == SnapName(Basename(curvol), now)
           call     == OtherCall("create", curvol.volumeId, ok)
       IN /\ clock' = now
          /\ IF Mutates(other.config)
             THEN IF ok
                  THEN /\ snapshots' = snapshots \cup
                            {Snapshot(nextId, curvol.volumeId, snapname, now, TRUE)}
                       /\ nextId' = nextId + 1
                       /\ other' = [other EXCEPT !.idx = other.idx + 1,
                                                 !.calls = Append(other.calls, call)]
                  ELSE /\ other' = [other EXCEPT !.pc = "done", !.status = "failed",
                                                 !.calls = Append(other.calls, call)]
                       /\ UNCHANGED << snapshots, nextId >>
             ELSE /\ ok
                  /\ other' = [other EXCEPT !.idx = other.idx + 1]
                  /\ UNCHANGED << snapshots, nextId >>
  /\ UNCHANGED << configfile, world, runVars, mainVars, jobVars, pc, exitStatus,
                  kconfig, jobidx, errcount, jobcount, status, failure, calls,
                  decisions >>

\* CreateBackup line 309 and ListBackups lines 313-315 in the second run
OtherCreatedBackups ==
  /\ other.pc = "create"
  /\ other.idx > Len(other.volumes)
  /\ other' = [other EXCEPT !.pc = "list", !.idx = 1, !.snapshotNames = <<>>,
                            !.resultsUnordered = <<>>]
  /\ UNCHANGED << configfile, world, runVars, mainVars, jobVars, snapshots, nextId,
                  clock, pc, exitStatus, kconfig, jobidx, errcount, jobcount, status,
                  failure, calls, decisions >>

\* ListBackups lines 318-337 in the second run: one volume
OtherListBackups ==
  /\ other.pc = "list"
  /\ other.idx <= Len(other.volumes)
  /\ LET volumeId == other.volumes[other.idx].volumeId
     IN \E ok \in BOOLEAN, found \in ProviderAwsGetEbsSnapshots(volumeId) :
          LET call == OtherCall("list", volumeId, ok)
          IN IF ok
             THEN other' = [other EXCEPT
                              !.snapshotNames = CollectNames(other.snapshotNames, found),
                              !.resultsUnordered = CollectItems(other.resultsUnordered, found),
                              !.idx = other.idx + 1,
                              !.calls = Append(other.calls, call)]
             ELSE /\ found = CHOOSE f \in ProviderAwsGetEbsSnapshots(volumeId) : TRUE
                  /\ other' = [other EXCEPT !.pc = "done", !.status = "failed",
                                            !.calls = Append(other.calls, call)]
  /\ UNCHANGED << configfile, world, runVars, mainVars, jobVars, snapshots, nextId,
                  clock, pc, exitStatus, kconfig, jobidx, errcount, jobcount, status,
                  failure, calls, decisions >>

\* ListBackups lines 339-347 and DeleteOldBackups lines 352-353 in the second
\* run
OtherListedBackups ==
  /\ other.pc = "list"
  /\ other.idx > Len(other.volumes)
  /\ \E now \in Now :
       /\ clock' = now
       /\ other' = [other EXCEPT
                      !.bkpitems = ResultsOrdered(other.snapshotNames, other.resultsUnordered),
                      !.snapshotNames = <<>>,
                      !.resultsUnordered = <<>>,
                      !.curtime = now,
                      !.idx = 1,
                      !.pc = "delete"]
  /\ UNCHANGED << configfile, world, runVars, mainVars, jobVars, snapshots, nextId,
                  pc, exitStatus, kconfig, jobidx, errcount, jobcount, status,
                  failure, calls, decisions >>

\* DeleteOldBackups lines 355-373 in the second run: one item
OtherDeleteOldBackups ==
  /\ other.pc = "delete"
  /\ other.idx <= Len(other.bkpitems)
  /\ LET item        == other.bkpitems[other.idx]
         snapshotAge == SnapshotAge(other.curtime, item.timestamp)
         snapDelete  == SnapDelete(snapshotAge, other.config.Retention)
         call(ok)    == OtherCall("delete", item.identifier, ok)
     IN \E ok \in ProviderAwsDeleteEbsSnapshot(item.identifier) :
          IF snapDelete /\ Mutates(other.config)
          THEN IF ok
               THEN /\ snapshots' = {s \in snapshots : s.snapshotId # item.identifier}
                    /\ other' = [other EXCEPT !.idx = other.idx + 1,
                                              !.calls = Append(other.calls, call(ok))]
               ELSE /\ other' = [other EXCEPT !.pc = "done", !.status = "failed",
                                              !.calls = Append(other.calls, call(ok))]
                    /\ UNCHANGED snapshots
          ELSE /\ ok = FALSE
               /\ other' = [other EXCEPT !.idx = other.idx + 1]
               /\ UNCHANGED snapshots
  /\ UNCHANGED << configfile, world, runVars, mainVars, jobVars, nextId, clock, pc,
                  exitStatus, kconfig, jobidx, errcount, jobcount, status, failure,
                  calls, decisions >>

\* DeleteOldBackups line 375 and runJob line 74 in the second run
OtherDeletedOldBackups ==
  /\ other.pc = "delete"
  /\ other.idx > Len(other.bkpitems)
  /\ other' = [other EXCEPT !.pc = "done", !.status = "ok"]
  /\ UNCHANGED << configfile, world, runVars, mainVars, jobVars, snapshots, nextId,
                  clock, pc, exitStatus, kconfig, jobidx, errcount, jobcount, status,
                  failure, calls, decisions >>

NextTwoRuns ==
  \/ Next
  \/ OtherInitialiseModule
  \/ OtherCreateBackup
  \/ OtherCreatedBackups
  \/ OtherListBackups
  \/ OtherListedBackups
  \/ OtherDeleteOldBackups
  \/ OtherDeletedOldBackups

\* the file of the two runs: one job that runs, beside a disabled job
TwoRunDocuments ==
  { Document(<<>>, ("alpha" :> BaseSection) @@
                   ("beta" :> SetKey(BaseSection, "enabled", BoolVal(FALSE)))) }

\* both runs at their start; the provider may hold one stale snapshot
InitTwoRuns ==
  /\ other = OtherRun("start")
  /\ InitRun(TwoRunDocuments, {World1}, {s \in SnapPool : s.snapshotId = 3})

SpecTwoRuns == InitTwoRuns /\ [][NextTwoRuns]_vars

----------------------------------------------------------------------------
(* Properties of the backup rotation, checked under SpecRotation *)

\* the delete-snapshot calls of the job last started, in order
DeleteCalls == SelectSeq(calls, LAMBDA c : c.op = "delete")

\* its pruning decisions that asked the provider for a deletion
DeleteDecisions == SelectSeq(decisions, LAMBDA d : d.delete /\ ~d.dryrun)

\* the seconds between the pruning pass and the creation of a decided item
Elapsed(d) == curtime - d.item.timestamp

\* the whole days in a number of seconds, rounded towards zero
WholeDays(secs) ==
  IF secs >= 0 THEN secs \div 86400 ELSE 0 - ((0 - secs) \div 86400)

\* C1: in the pruning pass the age of every listed item is (now - timestamp)
\* integer-divided by 86400, and the item is deleted (in dry-run: reported for
\* deletion) if and only if that age is strictly greater than the retention
\* of the job; an item whose age equals the retention is kept.
C1_DeletedIffAgeExceedsRetention ==
  /\ \A i \in DOMAIN decisions :
       LET d == decisions[i]
       IN /\ d.retention = b.config.Retention
          /\ d.item = bkpitems[i]
          /\ d.age = WholeDays(Elapsed(d))
          /\ d.delete <=> (d.age > d.retention)
          /\ (d.age = d.retention) => ~d.delete
  /\ Len(DeleteCalls) = Len(DeleteDecisions)
  /\ \A i \in DOMAIN DeleteCalls :
       DeleteCalls[i].arg = DeleteDecisions[i].item.identifier
  /\ \A i \in DOMAIN decisions :
       ~decisions[i].delete =>
         \A s \in before :
           s.snapshotId = decisions[i].item.identifier => s \in snapshots

\* a pruning pass kept an item whose age in days equals the retention, and the
\* provider still holds it after the job
C1_Witness ==
  /\ pc = "exit"
  /\ \E i \in DOMAIN decisions :
       /\ decisions[i].age = decisions[i].retention
       /\ ~decisions[i].delete
       /\ ~decisions[i].dryrun
       /\ \E s \in snapshots : s.snapshotId = decisions[i].item.identifier

\* C2 as stated: a snapshot is deleted as soon as the time elapsed since its
\* creation exceeds the retention period, even by one second (retention 5:
\* kept at 5*86400 seconds, deleted at 5*86400+1 seconds).
C2_DeletedOneSecondPastRetention ==
  \A i \in DOMAIN decisions :
    LET d == decisions[i]
    IN d.delete <=> (Elapsed(d) > d.retention * 86400)

\* C2: a snapshot is deleted by the pruning pass only once a whole day more
\* than the retention has elapsed since its creation, that is if and only if
\* now - created >= (retention+1)*86400 seconds: with retention 5, an item
\* with now - created = 5*86400 or 5*86400+1 seconds is kept, and an item
\* with now - created = 6*86400 seconds is deleted.
C2_DeletedOneDayPastRetention ==
  \A i \in DOMAIN decisions :
    LET d == decisions[i]
    IN /\ d.delete <=> (Elapsed(d) >= (d.retention + 1) * 86400)
       /\ (d.retention = 5 /\ Elapsed(d) \in {5 * 86400, 5 * 86400 + 1})
            => ~d.delete
       /\ (d.retention = 5 /\ Elapsed(d) = 6 * 86400) => d.delete

\* with retention 5 a pruning pass kept an item created 5*86400+1 seconds
\* before it
C2_Witness ==
  \E i \in DOMAIN decisions :
    /\ decisions[i].retention = 5
    /\ Elapsed(decisions[i]) = 5 * 86400 + 1
    /\ ~decisions[i].delete

\* C3: when a job runs with dryrun=true, no create-snapshot call and no
\* delete-snapshot call is made to the collaborator at any point of that job,
\* so the provider's set of snapshots is the same after the job as before it,
\* whatever volumes and snapshots are found.
C3_DryRunChangesNothing ==
  (running # "" /\ b.config.DryRun = TRUE) =>
    /\ \A i \in DOMAIN calls : calls[i].op \notin {"create", "delete"}
    /\ snapshots = before

\* a dry-run job went through creation and pruning with a volume in scope and
\* an item reported for deletion
C3_Witness ==
  /\ running # ""
  /\ b.config.DryRun = TRUE
  /\ status[running] = "ok"
  /\ Len(b.volumes) > 0
  /\ \E i \in DOMAIN decisions : decisions[i].delete

\* C4 as stated: ListBackups collapses the items that share a description into
\* one, so its result holds exactly one item per distinct description.
C4_OneItemPerDescription ==
  pc = "delete" =>
    \A i, j \in DOMAIN bkpitems :
      i # j => bkpitems[i].description # bkpitems[j].description

\* C5 as stated: in a non-dry-run job in which no collaborator call fails,
\* exactly one create-snapshot call is made per distinct volume identifier in
\* the scope of the job.
C5_OneCreatePerVolume ==
  (running # "" /\ status[running] = "ok" /\ b.config.DryRun = FALSE) =>
    \A k \in DOMAIN b.volumes :
      Cardinality({i \in DOMAIN calls :
                     /\ calls[i].op = "create"
                     /\ calls[i].arg = b.volumes[k].volumeId}) = 1

----------------------------------------------------------------------------
(* Properties of the orchestration, checked under Spec *)

\* the jobs of the file whose section says enabled: true
EnabledInFile ==
  {n \in DOMAIN configfile.jobs :
     /\ "enabled" \in DOMAIN configfile.jobs[n]
     /\ configfile.jobs[n]["enabled"] = BoolVal(TRUE)}

\* the jobs of the file whose section says enabled: false
DisabledInFile ==
  {n \in DOMAIN configfile.jobs :
     /\ "enabled" \in DOMAIN configfile.jobs[n]
     /\ configfile.jobs[n]["enabled"] = BoolVal(FALSE)}

\* the jobs that were attempted, and those of them that failed
Attempted == {n \in JobNames : status[n] \in {"ok", "failed"}}
Failed    == {n \in JobNames : status[n] = "failed"}

\* the malformed sections that have no valid module, or a value that does
\* not decode into its field
UnloadableSections ==
  { DelKey(BaseSection, "module"),
    SetKey(BaseSection, "module", StrVal("s3-sync")),
    SetKey(BaseSection, "enabled", StrVal("abc")) }

\* the jobs of the file with a malformed section
Malformed == {n \in DOMAIN configfile.jobs : configfile.jobs[n] \in BadSections}

\* the jobs of the file with a section that cannot be loaded
Unloadable ==
  {n \in DOMAIN configfile.jobs : configfile.jobs[n] \in UnloadableSections}

\* the file is there and its global section is well formed
GlobalLoads == configfile.found /\ configfile.global = <<>>

\* C6: a job that fails at any stage (resolution, location, creation, listing
\* or pruning) does not stop the orchestrator: every enabled job that sorts
\* after it is still executed and can succeed, and the run then ends as a
\* failure whose tally counts the failed and the attempted jobs.
C6_FailedJobDoesNotStopRun ==
  /\ \A n \in Failed :
       failure[n] \in {"load", "init", "create", "list", "delete"}
  /\ (pc = "exit" /\ Failed # {}) =>
       /\ exitStatus = ExitStatusFailedToExecuteJobs
       /\ EnabledInFile \subseteq Attempted
       /\ errcount = Cardinality(Failed)
       /\ jobcount = Cardinality(Attempted)

\* job alpha failed in its pruning pass, job beta then succeeded, and the run
\* ended with 1 failure out of 2 jobs
C6_Witness ==
  /\ pc = "exit"
  /\ status = [alpha |-> "failed", beta |-> "ok"]
  /\ failure["alpha"] = "delete"
  /\ errcount = 1
  /\ jobcount = 2
  /\ exitStatus = ExitStatusFailedToExecuteJobs

\* C7 as stated: a configuration error in one job's section aborts only that
\* job: the run as a whole is never aborted by it, and every other enabled
\* job is still attempted.
C7_ConfigErrorNeverAbortsRun ==
  (pc = "exit" /\ GlobalLoads /\ Malformed # {}) =>
    /\ exitStatus # ExitStatusInvalidConfiguration
    /\ EnabledInFile \subseteq Attempted

\* C7: a configuration error in one job's section that is found when the job
\* is resolved (unknown key, missing mandatory key other than module, value
\* that decodes but that the validation rejects, failed pattern check,
\* retention that is not positive) aborts only that job, and every other
\* enabled job is still attempted; a missing or invalid module, or a value of
\* enabled, dryrun or retention that does not decode into the type of its
\* field, makes the configuration fail to load, and the whole run is aborted
\* with exit status 1 before any job is run.
C7_ConfigErrorAbortsJobOrLoad ==
  (pc = "exit" /\ GlobalLoads) =>
    IF Unloadable # {}
    THEN /\ exitStatus = ExitStatusInvalidConfiguration
         /\ Attempted = {}
         /\ running = ""
    ELSE /\ exitStatus # ExitStatusInvalidConfiguration
         /\ EnabledInFile \subseteq Attempted
         /\ \A n \in Malformed \cap EnabledInFile :
              status[n] = "failed" /\ failure[n] = "load"
         /\ \A n \in EnabledInFile \ Malformed : failure[n] # "load"

\* job alpha has an unknown key and failed at its resolution, job beta was
\* still run and succeeded
C7_Witness ==
  /\ pc = "exit"
  /\ DOMAIN configfile.jobs = JobNames
  /\ configfile.jobs["alpha"] = SetKey(BaseSection, "retension", IntVal("30"))
  /\ status = [alpha |-> "failed", beta |-> "ok"]
  /\ failure["alpha"] = "load"
  /\ exitStatus = ExitStatusFailedToExecuteJobs

\* C8 as stated: a job section that omits the enabled key is treated as
\* enabled (default true): the orchestrator executes that job instead of
\* skipping it.
C8_OmittedEnabledRuns ==
  (pc = "exit" /\ exitStatus # ExitStatusInvalidConfiguration) =>
    \A n \in DOMAIN configfile.jobs :
      ("enabled" \notin DOMAIN configfile.jobs[n]) =>
        status[n] \in {"ok", "failed"}

\* C9: a job whose enabled flag is false is skipped: none of its stages runs,
\* no collaborator call is made for it, and it is added neither to the count
\* of attempted jobs nor to the count of failed jobs.
C9_DisabledJobSkipped ==
  /\ \A n \in DisabledInFile :
       /\ status[n] \in {"pending", "skipped"}
       /\ failure[n] = "none"
       /\ running # n
       /\ \A i \in DOMAIN calls : calls[i].job # n
       /\ (pc = "exit" /\ exitStatus # ExitStatusInvalidConfiguration)
            => status[n] = "skipped"
  /\ jobcount = Cardinality(Attempted)
  /\ errcount = Cardinality(Failed)
  /\ Attempted \cap DisabledInFile = {}

\* the disabled job alpha was skipped and the job beta after it was run: one
\* attempted job, the provider called for beta only
C9_Witness ==
  /\ pc = "exit"
  /\ "alpha" \in DisabledInFile
  /\ status = [alpha |-> "skipped", beta |-> "ok"]
  /\ jobcount = 1
  /\ calls # <<>>

Started(n) == running = n \/ status[n] # "pending"

\* C11: the orchestrator runs jobs one at a time in lexicographic order of job
\* name: for any two enabled jobs a < b, every action of a (including its
\* collaborator calls) happens before any action of b, whatever order the
\* sections have in the configuration.
C11_JobsInLexicographicOrder ==
  /\ \A i, j \in DOMAIN jobnames :
       i < j => LexLess(Chars[jobnames[i]], Chars[jobnames[j]])
  /\ \A i \in DOMAIN calls : calls[i].job = running
  /\ \A x, y \in DOMAIN configfile.jobs :
       (LexLess(Chars[x], Chars[y]) /\ Started(y)) => status[x] # "pending"

\* both jobs are enabled; alpha has returned and beta, started after it, has
\* called the provider
C11_Witness ==
  /\ EnabledInFile = {"alpha", "beta"}
  /\ status = [alpha |-> "ok", beta |-> "pending"]
  /\ running = "beta"
  /\ calls # <<>>

\* the job last started has located its volumes and none is in scope
NoVolumeInScope ==
  /\ running # ""
  /\ b.volumes = <<>>
  /\ \/ pc \in {"create", "list", "delete"}
     \/ /\ status[running] # "pending"
        /\ failure[running] \notin {"load", "init", "module"}

\* C12: zero matched instances, or zero matched volumes, is not an error: the
\* job then makes no create-snapshot, list-snapshots or delete-snapshot call
\* and is reported as succeeded (counted as attempted, not as failed).
C12_NothingInScopeIsNoError ==
  /\ NoVolumeInScope =>
       /\ \A i \in DOMAIN calls : calls[i].op \notin {"create", "list", "delete"}
       /\ status[running] \in {"pending", "ok"}
       /\ failure[running] = "none"
       /\ (pc \in {"loop", "exit"}) => (status[running] = "ok")
       /\ snapshots = before
  /\ (running # "" /\ failure[running] = "init") =>
       (calls = <<>> \/ ~calls[Len(calls)].ok)
  /\ jobcount = Cardinality(Attempted)
  /\ errcount = Cardinality(Failed)

\* an instance matched, none of its volumes passed the volume tag filter, and
\* the job ended as succeeded: one attempted job, no failed job
C12_Witness ==
  /\ pc = "exit"
  /\ NoVolumeInScope
  /\ instances # <<>>
  /\ status[running] = "ok"
  /\ jobcount = 1
  /\ errcount = 0

\* the section of the job last started has the instance selector "local"
LocalSelector ==
  /\ running # ""
  /\ "instance_id" \in DOMAIN configfile.jobs[running]
  /\ configfile.jobs[running]["instance_id"] = StrVal("local")

\* C13: when the instance selector is "local", the host identifier is detected
\* before any instance enumeration, the instance-id filter passed to every
\* instance enumeration of that job equals the detected value (the literal
\* "local" is never used as a filter), and if detection fails the job fails
\* without enumerating instances or volumes.
C13_LocalSelectorIsDetected ==
  LocalSelector =>
    /\ \A i \in DOMAIN calls :
         calls[i].op = "instances" =>
           /\ calls[i].arg # "local"
           /\ \E j \in 1..(i - 1) :
                /\ calls[j].op = "detect"
                /\ calls[j].ok
                /\ calls[j].arg = calls[i].arg
    /\ \A i \in DOMAIN calls :
         (calls[i].op = "detect" /\ ~calls[i].ok) =>
           /\ Len(calls) = 1
           /\ status[running] = "failed"
           /\ failure[running] = "init"
    /\ (calls # <<>>) => (calls[1].op = "detect")
    /\ (pc \in {"instances", "volumes", "create", "list", "delete"}) =>
         (b.config.InstanceId = calls[1].arg)

\* the host was detected and the instances were enumerated under its
\* identifier
C13_Witness ==
  /\ LocalSelector
  /\ Len(calls) >= 2
  /\ calls[1].op = "detect"
  /\ calls[1].ok
  /\ calls[2].op = "instances"
  /\ calls[2].arg = calls[1].arg
  /\ calls[2].arg = "i-0fedcba9876543210"

\* the section of the job last started asks for a retention of 0 days
ZeroRetention ==
  /\ running # ""
  /\ "retention" \in DOMAIN configfile.jobs[running]
  /\ configfile.jobs[running]["retention"] = IntVal("0")

\* C14: retention is strictly positive in every job that reaches the
\* collaborator: a job whose resolved retention is <= 0 fails at resolution
\* (LoadConfiguration) and makes no collaborator call of any kind, so every
\* create, list and delete call happens under a retention >= 1.
C14_RetentionPositive ==
  /\ (calls # <<>>) => (b.config.Retention >= 1)
  /\ (pc \in {"init", "instances", "volumes", "create", "list", "delete"}) =>
       (b.config.Retention >= 1)
  /\ \A i \in DOMAIN decisions : decisions[i].retention >= 1
  /\ ZeroRetention =>
       /\ calls = <<>>
       /\ pc \in {"load", "loop", "exit"}
       /\ (pc # "load") =>
            /\ status[running] = "failed"
            /\ failure[running] = "load"
            /\ lasterr = Error("retention", "retention")

\* a job with retention 0 failed at resolution without a call, and the job
\* after it called the provider under its retention of 5 days
C14_Witness ==
  /\ DOMAIN configfile.jobs = JobNames
  /\ configfile.jobs["alpha"] = SetKey(BaseSection, "retention", IntVal("0"))
  /\ status["alpha"] = "failed"
  /\ failure["alpha"] = "load"
  /\ running = "beta"
  /\ b.config.Retention = 5
  /\ \E i \in DOMAIN calls : calls[i].op = "delete"

\* the section of the job last started is well formed, its instance selector
\* left aside
SelectorDecides ==
  /\ running # ""
  /\ {"module", "enabled", "aws_region"} \subseteq DOMAIN configfile.jobs[running]
  /\ \A k \in DOMAIN configfile.jobs[running] \ {"instance_id"} :
       /\ k \in DOMAIN BaseSection
       /\ configfile.jobs[running][k] = BaseSection[k]
  /\ "instance_id" \in DOMAIN configfile.jobs[running] =>
       configfile.jobs[running]["instance_id"].t = "string"

\* the instance selector of that section, as characters
Selector ==
  IF "instance_id" \in DOMAIN configfile.jobs[running]
  THEN Chars[configfile.jobs[running]["instance_id"].s]
  ELSE <<>>

\* "i-" followed by exactly 17 characters of the given kind
IdOf(cs, Kind(_)) ==
  /\ Len(cs) = 19
  /\ SubSeq(cs, 1, 2) = <<105, 45>>
  /\ \A k \in 3..19 : Kind(cs[k])

IsDigit(c)    == c \in 48..57
IsHexDigit(c) == IsDigit(c) \/ c \in 97..102
IsLower(c)    == c \in 97..122

\* the resolution of the job last started is over: accepted, or rejected
\* for its instance selector before any collaborator call
SelectorAccepted == lasterr = NoError /\ failure[running] # "load"
SelectorRejected ==
  /\ lasterr = Error("pattern", "instance_id")
  /\ status[running] = "failed"
  /\ failure[running] = "load"
  /\ calls = <<>>

\* C15 as stated: job resolution accepts an instance selector if and only if
\* it is empty, equals "local", or is "i-" followed by exactly 17 hexadecimal
\* characters; any other value makes the job fail at resolution before any
\* collaborator call.
C15_SelectorIsHexadecimal ==
  (SelectorDecides /\ pc # "load") =>
    IF \/ Selector \in {<<>>, Chars["local"]}
       \/ IdOf(Selector, IsHexDigit)
    THEN SelectorAccepted
    ELSE SelectorRejected

\* C15: job resolution accepts an instance selector if and only if it is
\* empty, equals "local", or is "i-" followed by exactly 17 characters that
\* are each a lowercase letter a-z or a digit 0-9 (so "i-zzzzzzzzzzzzzzzzz" is
\* accepted); any other value makes the job fail at resolution before any
\* collaborator call.
C15_SelectorIsLowercaseAlphanumeric ==
  (SelectorDecides /\ pc # "load") =>
    IF \/ Selector \in {<<>>, Chars["local"]}
       \/ IdOf(Selector, LAMBDA c : IsDigit(c) \/ IsLower(c))
    THEN SelectorAccepted
    ELSE SelectorRejected

\* the selector "i-zzzzzzzzzzzzzzzzz" was accepted and the instances were
\* enumerated under it
C15_Witness ==
  /\ SelectorDecides
  /\ Selector = Chars["i-zzzzzzzzzzzzzzzzz"]
  /\ SelectorAccepted
  /\ \E i \in DOMAIN calls :
       calls[i].op = "instances" /\ calls[i].arg = "i-zzzzzzzzzzzzzzzzz"

----------------------------------------------------------------------------
(* Properties of the validation of a section, checked under SpecValidation *)

\* a section has been validated: the one the file holds, the one the store
\* holds after it, and the rules it was validated against
Validated == pc \in {"validatedGlobal", "validatedJobdef"}
RawSection ==
  IF pc = "validatedGlobal" THEN configfile.global ELSE configfile.jobs["alpha"]
ResolvedSection ==
  IF pc = "validatedGlobal" THEN kconfig.global ELSE kconfig.jobs["alpha"]
Rules ==
  IF pc = "validatedGlobal" THEN validateConfigGlobal ELSE validateConfigJobdef

RuleNames   == {Rules[i].entryname : i \in DOMAIN Rules}
UnknownKeys == DOMAIN RawSection \ RuleNames

\* what the raw section does to the i-th rule
Present(i) == Rules[i].entryname \in DOMAIN RawSection
TypeBad(i) ==
  /\ Present(i)
  /\ Rules[i].entrytype # ""
  /\ RawSection[Rules[i].entryname].t # Rules[i].entrytype
ValueBad(i) ==
  /\ Present(i)
  /\ Rules[i].allowedval # <<>>
  /\ \A j \in DOMAIN Rules[i].allowedval :
       Rules[i].allowedval[j] # RawSection[Rules[i].entryname].s
Missing(i)  == ~Present(i) /\ Rules[i].mandatory
Violated(i) == TypeBad(i) \/ ValueBad(i) \/ Missing(i)
FirstViolated(i) == Violated(i) /\ \A j \in 1..(i - 1) : ~Violated(j)

\* the error of the i-th rule, the type looked at before the value
RuleError(i) ==
  IF Missing(i) THEN Error("missing", Rules[i].entryname)
  ELSE IF TypeBad(i) THEN Error("type", Rules[i].entryname)
  ELSE Error("value", Rules[i].entryname)

\* C16 as stated: if the raw section contains any key that no rule names,
\* validation fails with the unknown-field error naming such a key, regardless
\* of whether the other keys of the section are valid, invalid or missing.
C16_UnknownKeyAlwaysNamed ==
  (Validated /\ UnknownKeys # {}) =>
    /\ lasterr.kind = "unknown"
    /\ lasterr.key \in UnknownKeys

\* C16: if the raw section contains any key that no rule names, validation
\* fails, whatever the other keys of the section are; the error is the
\* unknown-field error naming such a key when every rule is satisfied, and
\* otherwise the error of the first rule, in rule order, that the section
\* violates (wrong type, value not allowed, mandatory key missing), because
\* the rules are gone through before the keys are looked up.
C16_UnknownKeyRejected ==
  (Validated /\ UnknownKeys # {}) =>
    /\ lasterr # NoError
    /\ IF \E i \in DOMAIN Rules : Violated(i)
       THEN \E i \in DOMAIN Rules : FirstViolated(i) /\ lasterr = RuleError(i)
       ELSE lasterr.kind = "unknown" /\ lasterr.key \in UnknownKeys

\* a job section with the unknown key retension and no aws_region was
\* rejected for the missing aws_region
C16_Witness ==
  /\ pc = "validatedJobdef"
  /\ UnknownKeys = {"retension"}
  /\ lasterr = Error("missing", "aws_region")

\* the key an error names is one the section gets wrong
NamesOffendingKey ==
  \/ lasterr.kind = "unknown" /\ lasterr.key \in UnknownKeys
  \/ \E i \in DOMAIN Rules :
       /\ Violated(i)
       /\ lasterr.kind \in {"type", "value", "missing"}
       /\ lasterr.key = Rules[i].entryname

\* the i-th rule has a default to give
HasDefault(i) == ~Rules[i].mandatory /\ Rules[i].defaultval # ""

\* every key of the resolved section has the value the raw section gave it
\* or, if it gave none, the default of its rule
SuppliedOrDefault ==
  \A i \in DOMAIN Rules :
    Rules[i].entryname \in DOMAIN ResolvedSection =>
      IF Present(i)
      THEN ResolvedSection[Rules[i].entryname] = RawSection[Rules[i].entryname]
      ELSE /\ HasDefault(i)
           /\ ResolvedSection[Rules[i].entryname] = StrVal(Rules[i].defaultval)

\* C17 as stated: for every rule list R and raw section M, validation either
\* fails with an error naming the offending key, or succeeds and the resulting
\* section contains exactly the keys named in R, each one either supplied by M
\* or filled with its default.
C17_ResolvedHasEveryRuleKey ==
  Validated =>
    IF lasterr # NoError
    THEN NamesOffendingKey
    ELSE DOMAIN ResolvedSection = RuleNames /\ SuppliedOrDefault

\* C17: for every rule list R and raw section M, validation either fails with
\* an error naming the offending key, or succeeds, and the resulting section
\* then contains only keys named in R: every key supplied by M, with its value
\* unchanged, and every absent key whose rule has a non-empty default, filled
\* with that default as a string; an absent key whose rule has an empty
\* default (aws credentials, instance_id, instance_tag, volume_tag) stays
\* absent.
C17_ResolvedHasSuppliedAndDefaultedKeys ==
  Validated =>
    IF lasterr # NoError
    THEN NamesOffendingKey
    ELSE /\ DOMAIN ResolvedSection \subseteq RuleNames
         /\ DOMAIN ResolvedSection =
              DOMAIN RawSection \cup
              {Rules[i].entryname : i \in {j \in DOMAIN Rules : HasDefault(j)}}
         /\ SuppliedOrDefault
         /\ \A i \in DOMAIN Rules : Rules[i].mandatory => Present(i)

\* a job section without retention and without instance_id was accepted: the
\* resolved section has the default retention and no instance_id
C17_Witness ==
  /\ pc = "validatedJobdef"
  /\ lasterr = NoError
  /\ DOMAIN RawSection = {"module", "enabled", "dryrun", "aws_region"}
  /\ DOMAIN ResolvedSection =
       {"module", "enabled", "dryrun", "retention", "aws_region"}
  /\ ResolvedSection["retention"] = StrVal("30")

----------------------------------------------------------------------------
(* Properties of the resolution of a job, checked under Spec *)

\* the section of the job last started
RunningSection == configfile.jobs[running]

\* the resolution of the job last started is over
Resolved == running # "" /\ pc # "load"

\* C18 as stated: if a key whose rule is mandatory (module, aws_region) is
\* absent from a job section, validation fails with the missing-field error
\* naming that key, and the job makes no collaborator call.
C18_MissingKeyAlwaysNamed ==
  \A k \in {"module", "aws_region"} :
    (Resolved /\ k \notin DOMAIN RunningSection) =>
      /\ lasterr = Error("missing", k)
      /\ calls = <<>>

\* the rules listed before aws_region that the section of the job last
\* started violates
EarlierRuleErrors ==
  (IF "module" \in DOMAIN RunningSection
      /\ RunningSection["module"].t # "string"
   THEN {Error("type", "module")} ELSE {}) \cup
  (IF "dryrun" \in DOMAIN RunningSection
      /\ RunningSection["dryrun"].t # "bool"
   THEN {Error("type", "dryrun")} ELSE {}) \cup
  (IF "enabled" \in DOMAIN RunningSection
      /\ RunningSection["enabled"].t # "bool"
   THEN {Error("type", "enabled")} ELSE {}) \cup
  (IF "retention" \in DOMAIN RunningSection
      /\ RunningSection["retention"].t # "int"
   THEN {Error("type", "retention")} ELSE {})

\* C18: if aws_region is absent from the section of a job that is run, the
\* job fails at resolution and makes no collaborator call; validation fails
\* with the missing-field error naming aws_region unless the section violates
\* a rule listed before it (module, enabled, dryrun, retention), in which case
\* it fails with the error of that rule. If module is absent from a job
\* section, the configuration is not loaded: the run ends with exit status 1
\* and no job is validated or run.
C18_MissingKeyRejected ==
  /\ (Resolved /\ "aws_region" \notin DOMAIN RunningSection) =>
       /\ status[running] = "failed"
       /\ failure[running] = "load"
       /\ calls = <<>>
       /\ IF EarlierRuleErrors = {}
          THEN lasterr = Error("missing", "aws_region")
          ELSE lasterr \in EarlierRuleErrors
  /\ (\E n \in DOMAIN configfile.jobs : "module" \notin DOMAIN configfile.jobs[n]) =>
       /\ running = ""
       /\ lasterr = NoError
       /\ calls = <<>>
       /\ (pc = "exit") => (exitStatus = ExitStatusInvalidConfiguration)

\* a job without aws_region and with a dryrun of the wrong type failed at
\* resolution for the type of dryrun, without a call
C18_Witness ==
  /\ Resolved
  /\ "aws_region" \notin DOMAIN RunningSection
  /\ lasterr = Error("type", "dryrun")
  /\ status[running] = "failed"
  /\ calls = <<>>

----------------------------------------------------------------------------
(* Properties of the defaults and of the checks of a present key, checked *)
(* under SpecValidation                                                     *)

\* the default the documentation gives each key that has one
DocumentedDefaults ==
  IF pc = "validatedGlobal"
  THEN ("loglevel" :> "info")
  ELSE ("enabled" :> "true") @@ ("dryrun" :> "false") @@ ("retention" :> "30")

\* C19: if a non-mandatory key is absent, validation injects the rule's
\* default into the resolved section when that default is non-empty
\* (enabled=true, dryrun=false, retention=30, loglevel=info) and injects
\* nothing when the default is the empty string; a key that is present in the
\* raw section is never overwritten by a default.
C19_DefaultsInjected ==
  Validated =>
    /\ \A k \in DOMAIN RawSection :
         k \in DOMAIN ResolvedSection /\ ResolvedSection[k] = RawSection[k]
    /\ lasterr = NoError =>
         /\ \A k \in DOMAIN DocumentedDefaults \ DOMAIN RawSection :
              /\ k \in DOMAIN ResolvedSection
              /\ ResolvedSection[k] = StrVal(DocumentedDefaults[k])
         /\ \A i \in DOMAIN Rules :
              (~Present(i) /\ Rules[i].entryname \notin DOMAIN DocumentedDefaults)
                => Rules[i].entryname \notin DOMAIN ResolvedSection
         /\ pc = "validatedJobdef" =>
              LET c == JobConfigEbsSnapshot(ResolvedSection).conf
              IN /\ "enabled" \notin DOMAIN RawSection => c.Enabled = TRUE
                 /\ "dryrun" \notin DOMAIN RawSection => c.DryRun = FALSE
                 /\ "retention" \notin DOMAIN RawSection => c.Retention = 30

\* a job section with only module and aws_region was accepted: enabled,
\* dryrun and retention got their defaults, and no other key was added
C19_Witness ==
  /\ pc = "validatedJobdef"
  /\ lasterr = NoError
  /\ DOMAIN RawSection = {"module", "aws_region"}
  /\ DOMAIN ResolvedSection =
       {"module", "aws_region", "enabled", "dryrun", "retention"}
  /\ ResolvedSection["retention"] = StrVal("30")
  /\ ResolvedSection["enabled"] = StrVal("true")

\* C20: if a key is present, validation rejects the section when the rule
\* specifies a type and the value's type differs from it, or when the rule has
\* an allowed set and the value's string rendering is not a member of it; the
\* type check is made before the allowed-value check, and a present value that
\* passes both is accepted unchanged.
C20_PresentKeyChecked ==
  Validated =>
    /\ \A i \in DOMAIN Rules :
         /\ (TypeBad(i) \/ ValueBad(i)) => lasterr # NoError
         /\ (FirstViolated(i) /\ TypeBad(i)) =>
              lasterr = Error("type", Rules[i].entryname)
         /\ (FirstViolated(i) /\ ~TypeBad(i) /\ ValueBad(i)) =>
              lasterr = Error("value", Rules[i].entryname)
         /\ (Present(i) /\ lasterr = NoError) =>
              ResolvedSection[Rules[i].entryname] = RawSection[Rules[i].entryname]
    /\ ((\A i \in DOMAIN Rules : ~TypeBad(i) /\ ~ValueBad(i) /\ ~Missing(i))
        /\ UnknownKeys = {}) => lasterr = NoError

\* a job section whose enabled is the string "abc", of the wrong type and not
\* an allowed value, was rejected for its type
C20_Witness ==
  /\ pc = "validatedJobdef"
  /\ \E i \in DOMAIN Rules :
       /\ Rules[i].entryname = "enabled"
       /\ FirstViolated(i)
       /\ TypeBad(i)
       /\ ValueBad(i)
  /\ lasterr = Error("type", "enabled")

----------------------------------------------------------------------------
(* Determinism of the validation, checked under SpecValidation *)

\* the outcomes the validation of the raw section can have
Outcomes == configValidateAndSetDefaults(RawSection, Rules)

\* C21 as stated: validation is deterministic: for the same raw section and
\* the same rule list it always yields the same outcome, that is the same
\* accept/reject decision and, on rejection, the same kind of violation naming
\* the same key, also when the section contains several unknown keys or
\* several violations.
C21_ValidationDeterministic ==
  Validated =>
    /\ lasterr \in {o.err : o \in Outcomes}
    /\ \A o \in Outcomes : o.err = lasterr

----------------------------------------------------------------------------
(* Properties of the names of the snapshots, checked under SpecRotation *)

\* the snapshots the provider holds that were created during the run
CreatedInRun == {s \in snapshots : s.snapshotId >= FirstNewId}

\* C22 as stated: the snapshot names produced by snapshot creation within one
\* run are pairwise distinct (name = basename, "-", second-precision RFC3339
\* timestamp; basename = volume display name if non-empty, else volume
\* identifier), for any set of resolved volumes.
C22_SnapshotNamesDistinct ==
  \A s, t \in CreatedInRun :
    s.snapshotId # t.snapshotId => s.snapshotDesc # t.snapshotDesc

----------------------------------------------------------------------------
(* Properties of the sequence of a job, checked under SpecRotation *)

\* the stage a collaborator call belongs to: 1 volume location, 2 creation,
\* 3 listing, 4 pruning
Stage(op) ==
  IF op \in {"detect", "instances", "volumes"} THEN 1
  ELSE IF op = "create" THEN 2
  ELSE IF op = "list" THEN 3
  ELSE 4

\* the calls of the job last started with the given operation
CallsOf(op) == SelectSeq(calls, LAMBDA c : c.op = op)

\* all the calls of the given operation succeeded
AllOk(op) == \A i \in DOMAIN CallsOf(op) : CallsOf(op)[i].ok

\* the stages before the one the job is in have succeeded
LoadDone   == running # "" /\ lasterr = NoError /\ b.config.Retention >= 1
LocateDone ==
  /\ LoadDone
  /\ Len(CallsOf("instances")) = 1
  /\ Len(CallsOf("volumes")) = Len(instances)
  /\ AllOk("detect") /\ AllOk("instances") /\ AllOk("volumes")
  /\ b.volumes = results
CreateDone ==
  /\ LocateDone
  /\ AllOk("create")
  /\ Len(CallsOf("create")) = IF Mutates(b.config) THEN Len(b.volumes) ELSE 0
ListDone ==
  /\ CreateDone
  /\ AllOk("list")
  /\ Len(CallsOf("list")) = Len(b.volumes)

\* C23: within one job the stages run in the fixed order load configuration,
\* initialise and locate volumes, create snapshots, list snapshots, delete old
\* snapshots, and a stage runs only if every earlier stage succeeded: no
\* delete-snapshot call is made in a job unless every create-snapshot of that
\* job succeeded, and no create call is made before volume location has
\* finished.
C23_StagesInOrder ==
  /\ \A i, j \in DOMAIN calls : i < j => Stage(calls[i].op) <= Stage(calls[j].op)
  /\ calls # <<>> => LoadDone
  /\ (pc = "create" \/ CallsOf("create") # <<>>) => LocateDone
  /\ (pc = "list" \/ CallsOf("list") # <<>>) => CreateDone
  /\ (pc = "delete" \/ CallsOf("delete") # <<>> \/ decisions # <<>>) => ListDone
  /\ (running # "" /\ status[running] = "ok") => ListDone /\ AllOk("delete")
  /\ (running # "" /\ failure[running] = "load") => calls = <<>>
  /\ (running # "" /\ failure[running] = "init") => CallsOf("create") = <<>>
  /\ (running # "" /\ failure[running] = "create") => CallsOf("list") = <<>>
  /\ (running # "" /\ failure[running] = "list") => CallsOf("delete") = <<>>

\* a job located two volumes, created a snapshot of each, listed them and
\* then deleted an old snapshot
C23_Witness ==
  /\ running # ""
  /\ status[running] = "ok"
  /\ Len(b.volumes) = 2
  /\ Len(CallsOf("create")) = 2
  /\ Len(CallsOf("list")) = 2
  /\ Len(CallsOf("delete")) >= 1
  /\ calls[Len(calls)].op = "delete"

\* the snapshots the job last started has created
CreatedInJob == {s \in snapshots : \A t \in before : t.snapshotId # s.snapshotId}

\* the job last started has failed at the given stage
FailedAt(stage) == running # "" /\ failure[running] = stage

\* C24: fail-fast inside a job: after the first collaborator call that fails
\* in a job (enumeration, creation, listing or deletion), no further
\* collaborator call is made for that job; volumes after the one whose
\* creation failed get no snapshot, and items after the one whose deletion
\* failed are not evaluated or deleted in this run.
C24_FailFast ==
  /\ \A i \in 1..(Len(calls) - 1) : calls[i].ok
  /\ (calls # <<>> /\ ~calls[Len(calls)].ok) =>
       /\ status[running] = "failed"
       /\ pc \in {"loop", "exit"}
  /\ FailedAt("create") =>
       /\ idx <= Len(b.volumes)
       /\ Len(CallsOf("create")) = idx
       /\ calls[Len(calls)] =
            [job |-> running, op |-> "create", arg |-> b.volumes[idx].volumeId, ok |-> FALSE]
       /\ Cardinality(CreatedInJob) = idx - 1
       /\ CallsOf("list") = <<>> /\ CallsOf("delete") = <<>> /\ decisions = <<>>
  /\ FailedAt("delete") =>
       /\ idx <= Len(bkpitems)
       /\ Len(decisions) = idx
       /\ calls[Len(calls)] =
            [job |-> running, op |-> "delete", arg |-> bkpitems[idx].identifier, ok |-> FALSE]
       /\ \A j \in (idx + 1)..Len(bkpitems) :
            (\A k \in 1..idx : bkpitems[k].identifier # bkpitems[j].identifier) =>
              \E s \in snapshots : s.snapshotId = bkpitems[j].identifier

\* the deletion of a listed item failed while items were left to evaluate:
\* the job failed there, and the items after it are still held
C24_Witness ==
  /\ FailedAt("delete")
  /\ idx < Len(bkpitems)
  /\ Len(decisions) = idx
  /\ \A k \in 1..idx : bkpitems[k].identifier # bkpitems[Len(bkpitems)].identifier

\* C25 as stated: no operation is retried: within one job run each snapshot
\* identifier is the target of at most one delete-snapshot call, whether that
\* call succeeds or fails, for every listing the collaborator can return.
C25_OneDeletePerSnapshot ==
  \A i, j \in DOMAIN DeleteCalls :
    i # j => DeleteCalls[i].arg # DeleteCalls[j].arg

----------------------------------------------------------------------------
(* Properties of the scope of the pruning, checked under SpecRotation *)

\* the snapshots the provider has held since the job last started began
HeldInJob == before \cup snapshots

\* the identifiers of the volumes the job last started has resolved
ResolvedVolumes == {b.volumes[k].volumeId : k \in DOMAIN b.volumes}

\* C26: every delete-snapshot call of a job targets a snapshot that the
\* collaborator listed, during the same job, as carrying the created-by marker
\* (CreatedBy=molibackup) and as belonging to a volume of that job's resolved
\* volume set; snapshots without the marker and snapshots of volumes outside
\* the set are never deleted.
C26_DeletesOnlyListedManaged ==
  /\ \A i \in DOMAIN DeleteCalls :
       /\ \E k \in DOMAIN bkpitems : bkpitems[k].identifier = DeleteCalls[i].arg
       /\ \E s \in HeldInJob :
            /\ s.snapshotId = DeleteCalls[i].arg
            /\ s.createdBy
            /\ s.volumeId \in ResolvedVolumes
            /\ \E j \in DOMAIN calls :
                 calls[j].op = "list" /\ calls[j].arg = s.volumeId /\ calls[j].ok
  /\ \A s \in before :
       (~s.createdBy \/ s.volumeId \notin ResolvedVolumes) => s \in snapshots
  /\ \A k \in DOMAIN bkpitems :
       \E s \in HeldInJob :
         /\ s.snapshotId = bkpitems[k].identifier
         /\ s.createdBy
         /\ s.volumeId \in ResolvedVolumes

\* a job deleted a snapshot that carries the marker and belongs to one of its
\* volumes, after listing that volume
C26_Witness ==
  /\ running # ""
  /\ status[running] = "ok"
  /\ \E i \in DOMAIN DeleteCalls :
       /\ DeleteCalls[i].ok
       /\ \E s \in before :
            /\ s.snapshotId = DeleteCalls[i].arg
            /\ s.createdBy
            /\ s.volumeId \in ResolvedVolumes
            /\ s \notin snapshots

----------------------------------------------------------------------------
(* Properties of the tag filters, checked under SpecTags *)

\* the tag options of the job last started, once its resolution succeeded
TagsResolved == running = "alpha" /\ pc # "load" /\ lasterr = NoError

\* the (key, value) pair is the two sides of the "=" of the string
SplitsInto(tag, pair) ==
  /\ pair.key # <<>>
  /\ pair.val # <<>>
  /\ pair.key \o <<61>> \o pair.val = Chars[tag]

\* the resource carries a tag whose key, "=" and value make the string
Carries(tags, tag) ==
  \E t \in tags : t[1] \o <<61>> \o t[2] = Chars[tag]

\* the tags the provider holds for a volume
VolumeTags(volumeId) ==
  UNION { {world[i].volumes[k].tags : k \in {j \in DOMAIN world[i].volumes :
                                               world[i].volumes[j].volumeId = volumeId}} :
          i \in DOMAIN world }

\* C27: for every tag-filter string that passes validation (non-empty and
\* matching the key=value pattern), parsing in the resource locator yields a
\* non-empty key and a non-empty value with key, "=", value equal to the
\* original string, so a validated non-empty filter is never silently dropped;
\* only an empty filter yields the empty (no filtering) pair.
C27_ValidatedTagIsParsed ==
  TagsResolved =>
    /\ \A tag \in {b.config.InstanceTag, b.config.VolumeTag} :
         IF tag = ""
         THEN ParseTag(tag) = [key |-> <<>>, val |-> <<>>]
         ELSE SplitsInto(tag, ParseTag(tag))
    /\ (b.config.InstanceTag # "" /\ pc \notin {"init", "instances"}) =>
         \A k \in DOMAIN instances : Carries(instances[k].tags, b.config.InstanceTag)
    /\ b.config.VolumeTag # "" =>
         /\ \A k \in DOMAIN results :
              \E tags \in VolumeTags(results[k].volumeId) : Carries(tags, b.config.VolumeTag)
         /\ \A k \in DOMAIN b.volumes :
              \E tags \in VolumeTags(b.volumes[k].volumeId) : Carries(tags, b.config.VolumeTag)

\* a job with volume_tag Backup=yes resolved the tagged volume only, out of
\* the two the instance has, and backed it up
C27_Witness ==
  /\ TagsResolved
  /\ b.config.VolumeTag = "Backup=yes"
  /\ b.config.InstanceTag = ""
  /\ ParseTag(b.config.VolumeTag) = [key |-> Chars["Backup"], val |-> Chars["yes"]]
  /\ Len(instances) = 2
  /\ ResolvedVolumes = {"vol-1"}
  /\ status["alpha"] = "ok"

----------------------------------------------------------------------------
(* Properties of two runs at the same time, checked under SpecTwoRuns *)

\* the delete-snapshot calls of the second run, in order
OtherDeleteCalls == SelectSeq(other.calls, LAMBDA c : c.op = "delete")

\* the run has made a create-snapshot call for the volume that succeeded
Created(cs, volumeId) ==
  \E i \in DOMAIN cs : cs[i].op = "create" /\ cs[i].arg = volumeId /\ cs[i].ok

\* the listing of the run holds the snapshot
Listed(items, snapshotId) ==
  \E k \in DOMAIN items : items[k].identifier = snapshotId

\* C28: two uncoordinated runs of the whole process against the same volume
\* can interleave so that both create a snapshot of it and both list the same
\* stale snapshot and both issue a delete-snapshot call for it; nothing in the
\* program prevents this, and the run whose delete call fails records its job
\* as failed. (That the interleaving exists is what C28_Witness shows; what
\* holds in every state is that the two calls never both succeed and that a
\* failed call fails the job of its run.)
C28_BothRunsDeleteSameSnapshot ==
  /\ \A i \in DOMAIN DeleteCalls, j \in DOMAIN OtherDeleteCalls :
       DeleteCalls[i].arg = OtherDeleteCalls[j].arg =>
         ~(DeleteCalls[i].ok /\ OtherDeleteCalls[j].ok)
  /\ (\E i \in DOMAIN DeleteCalls : ~DeleteCalls[i].ok) =>
       /\ status[running] = "failed"
       /\ failure[running] = "delete"
       /\ (pc = "exit" => exitStatus = ExitStatusFailedToExecuteJobs)
  /\ (\E j \in DOMAIN OtherDeleteCalls : ~OtherDeleteCalls[j].ok) =>
       /\ other.status = "failed"
       /\ other.pc = "done"

\* both runs created a snapshot of vol-1, both listed the stale snapshot 3 and
\* both called for its deletion: the call of the second run succeeded, the
\* call of the first failed and its job is recorded as failed
C28_Witness ==
  /\ Created(calls, "vol-1")
  /\ Created(other.calls, "vol-1")
  /\ Listed(bkpitems, 3)
  /\ Listed(other.bkpitems, 3)
  /\ \E j \in DOMAIN OtherDeleteCalls :
       OtherDeleteCalls[j].arg = 3 /\ OtherDeleteCalls[j].ok
  /\ \E i \in DOMAIN DeleteCalls :
       DeleteCalls[i].arg = 3 /\ ~DeleteCalls[i].ok
  /\ status["alpha"] = "failed"
  /\ failure["alpha"] = "delete"
  /\ Cardinality(CreatedInRun) = 2

----------------------------------------------------------------------------
(* Properties of what the pruning keeps, checked under SpecRotation *)

\* two full days, in seconds
TwoDays == 2 * 86400

----------------------------------------------------------------------------
(* Properties of the pruning of two jobs on one volume, checked under *)
(* SpecRotation                                                        *)

\* for a file with the two jobs alpha and beta, the job whose earlier run
\* created each snapshot the provider held before the run: both jobs ran on
\* each of the earlier days. The provider keeps no record of it; snapshot 5
\* was not created by the program.
CreatedUnder ==
  (1 :> "alpha") @@ (2 :> "beta") @@ (3 :> "alpha") @@ (4 :> "beta") @@
  (5 :> "") @@ (6 :> "alpha") @@ (7 :> "beta")

\* the retention the file gives a job
RetentionInFile(n) ==
  IF "retention" \in DOMAIN configfile.jobs[n]
  THEN DecodeInt(configfile.jobs[n]["retention"]).val
  ELSE 30

\* the age the pruning pass of the job last started gives a snapshot
AgeInJob(s) == WholeDays(curtime - s.snapshotTime)

\* C30 as stated: a job's pruning pass deletes only snapshots that were
\* created under that job's own retention policy: when two jobs with different
\* retention values resolve the same volume, the job with the shorter
\* retention does not delete snapshots that the job with the longer retention
\* created and would still keep.
C30_DeletesOnlyOwnSnapshots ==
  configfile \in TwoJobDocuments =>
    \A i \in DOMAIN DeleteCalls :
      \A s \in before :
        (s.snapshotId = DeleteCalls[i].arg /\ DeleteCalls[i].ok) =>
          /\ CreatedUnder[s.snapshotId] = running
          /\ \A m \in DOMAIN configfile.jobs \ {running} :
               ~ /\ CreatedUnder[s.snapshotId] = m
                 /\ RetentionInFile(m) > b.config.Retention
                 /\ AgeInJob(s) <= RetentionInFile(m)

\* C30: a job's pruning pass takes no account of the job that created a
\* snapshot: it lists every snapshot of its resolved volumes that carries the
\* created-by marker and deletes each one whose age exceeds its own
\* retention. When two jobs with different retention values resolve the same
\* volume, the job with the shorter retention deletes the snapshots that the
\* job with the longer retention created and would still keep.
C30_DeletesWhateverJobCreated ==
  /\ \A i \in DOMAIN decisions :
       /\ decisions[i].retention = b.config.Retention
       /\ decisions[i].delete <=> decisions[i].age > b.config.Retention
  /\ \A i \in DOMAIN DeleteCalls :
       \A s \in before :
         s.snapshotId = DeleteCalls[i].arg => AgeInJob(s) > b.config.Retention
  /\ (running # "" /\ status[running] = "ok" /\ Mutates(b.config)) =>
       \A s \in before :
         (s.createdBy /\ s.volumeId \in ResolvedVolumes
          /\ AgeInJob(s) > b.config.Retention) => s \notin snapshots

\* in one run the job alpha, with retention 5, kept the snapshot its earlier
\* run had created 5 days before, and the job beta, with retention 1 on the
\* same volume, then deleted it
C30_Witness ==
  /\ configfile \in TwoJobDocuments
  /\ status["alpha"] = "ok"
  /\ running = "beta"
  /\ status["beta"] = "ok"
  /\ RetentionInFile("alpha") = 5
  /\ b.config.Retention = 1
  /\ \E s \in before :
       /\ s.snapshotId = 1
       /\ CreatedUnder[s.snapshotId] = "alpha"
       /\ AgeInJob(s) = 5
       /\ s \notin snapshots
       /\ \E i \in DOMAIN DeleteCalls : DeleteCalls[i].arg = 1 /\ DeleteCalls[i].ok

====
